---------------------------- MODULE Spec2Model ----------------------------
(***************************************************************************)
(* A model of the ID Analyzer Python client library                       *)
(* (src/idanalyzer/idanalyzer.py): the four client classes CoreAPI,       *)
(* DocuPass, Vault and AMLAPI, their configuration dictionaries, their    *)
(* setters and their action methods, with the remote API modelled as a    *)
(* nondeterministic answer to every POST.                                 *)
(*                                                                         *)
(* Python values are records [ty, n, s, d, l]:                            *)
(*   ty  the Python type ("none", "bool", "int", "float", "str",          *)
(*       "bytes", "dict", "list"),                                         *)
(*   n   the number held by a bool (0/1), an int, or a float (floats are  *)
(*       held in tenths: 0.4 is n = 4),                                    *)
(*   s   the text of a str or bytes,                                       *)
(*   d   the entries of a dict (keys to values),                            *)
(*   l   the items of a list.                                              *)
(* A Python dict object is a TLA+ function from its keys to such values.   *)
(* Python str values are TLA+ strings; the regular expressions of the     *)
(* source are matched character by character.                              *)
(***************************************************************************)
EXTENDS Integers, Sequences, FiniteSets, TLC

(***************************************************************************)
(* Python values                                                           *)
(***************************************************************************)
EmptyDict == [k \in {} |-> 0]

PyNone == [ty |-> "none", n |-> 0, s |-> "", d |-> EmptyDict, l |-> <<>>]

PyBool(b) == [ty |-> "bool", n |-> IF b THEN 1 ELSE 0, s |-> "", d |-> EmptyDict, l |-> <<>>]

PyInt(i) == [ty |-> "int", n |-> i, s |-> "", d |-> EmptyDict, l |-> <<>>]

\* A float, given in tenths.
PyFloat(tenths) == [ty |-> "float", n |-> tenths, s |-> "", d |-> EmptyDict, l |-> <<>>]

PyStr(str) == [ty |-> "str", n |-> 0, s |-> str, d |-> EmptyDict, l |-> <<>>]

PyBytes(str) == [ty |-> "bytes", n |-> 0, s |-> str, d |-> EmptyDict, l |-> <<>>]

\* A dict value whose entries are leaves (an error structure, prefill data).
PyDict(entries) == [ty |-> "dict", n |-> 0, s |-> "", d |-> entries, l |-> <<>>]

PyList(items) == [ty |-> "list", n |-> 0, s |-> "", d |-> EmptyDict, l |-> items]

IsNumber(v) == v.ty \in {"bool", "int", "float"}

\* The number a bool, int or float stands for, in tenths.
Tenths(v) == IF v.ty = "float" THEN v.n ELSE 10 * v.n

\* Python truth value: `if v`, `not v`.
Truthy(v) ==
    CASE v.ty = "none" -> FALSE
      [] v.ty \in {"bool", "int", "float"} -> v.n # 0
      [] v.ty \in {"str", "bytes"} -> v.s # ""
      [] v.ty = "dict" -> DOMAIN v.d # {}
      [] v.ty = "list" -> v.l # <<>>
      [] OTHER -> TRUE

\* Python `a == b`: numbers compare by value (True == 1), the rest by type and content.
PyEq(a, b) ==
    IF IsNumber(a) /\ IsNumber(b) THEN Tenths(a) = Tenths(b)
    ELSE a = b

\* Python `v is True`.
IsTrue(v) == v.ty = "bool" /\ v.n = 1

\* dict.get(key): None when the key is absent.
Get(dict, key) == IF key \in DOMAIN dict THEN dict[key] ELSE PyNone

\* dict[key] = value on a dict object.
Put(dict, key, value) == [k \in DOMAIN dict \cup {key} |-> IF k = key THEN value ELSE dict[k]]

(***************************************************************************)
(* Characters and the regular expressions of the source                    *)
(***************************************************************************)
Digits == {"0", "1", "2", "3", "4", "5", "6", "7", "8", "9"}

LowerCase == {"a", "b", "c", "d", "e", "f", "g", "h", "i", "j", "k", "l", "m",
              "n", "o", "p", "q", "r", "s", "t", "u", "v", "w", "x", "y", "z"}

UpperCase == {"A", "B", "C", "D", "E", "F", "G", "H", "I", "J", "K", "L", "M",
              "N", "O", "P", "Q", "R", "S", "T", "U", "V", "W", "X", "Y", "Z"}

\* \w of Python's re for ASCII text.
WordChars == Digits \cup LowerCase \cup UpperCase \cup {"_"}

\* [-a-zA-Z0-9@:%._+~#=]
UrlHostChars == Digits \cup LowerCase \cup UpperCase \cup
                {"-", "@", ":", "%", ".", "_", "+", "~", "#", "="}

HexDigits == Digits \cup {"a", "b", "c", "d", "e", "f", "A", "B", "C", "D", "E", "F"}

Char(str, i) == SubSeq(str, i, i)

\* Whether str holds lit at position i.
LitAt(str, i, lit) == i + Len(lit) - 1 <= Len(str) /\ SubSeq(str, i, i + Len(lit) - 1) = lit

\* Whether the characters i..j of str are all in class.
AllIn(str, i, j, class) == \A k \in i..j : Char(str, k) \in class

\* re.search of
\*   (http(s)?://.)(www\.)?[-a-zA-Z0-9@:%._+~#=]{2,256}\.[a-z]{2,6}\b([-a-zA-Z0-9@:%_+.~#?&/=]*)
\* anywhere in the string. The trailing group matches the empty string, so a
\* match exists iff the part up to \b matches somewhere.
is_valid_url(str) ==
    \E p \in 1..Len(str) :
      \E https \in {0, 1} :
        /\ LitAt(str, p, "http")
        /\ https = 1 => LitAt(str, p + 4, "s")
        /\ LitAt(str, p + 4 + https, "://")
        /\ LET any == p + 7 + https IN        \* the '.' after ://
           /\ any <= Len(str)
           /\ Char(str, any) # "\n"
           /\ \E www \in {0, 4} :
                /\ www = 4 => LitAt(str, any + 1, "www.")
                /\ LET host == any + 1 + www IN
                   \E m \in 2..256 :
                     /\ host + m <= Len(str)
                     /\ AllIn(str, host, host + m - 1, UrlHostChars)
                     /\ Char(str, host + m) = "."
                     /\ \E t \in 2..6 :
                          LET last == host + m + t IN
                          /\ last <= Len(str)
                          /\ AllIn(str, host + m + 1, last, LowerCase)
                          \* \b: the next character is not a word character
                          /\ last = Len(str) \/ Char(str, last + 1) \notin WordChars

\* Where $ matches: at the end of the string, and before a newline that ends it.
DollarAt(str) ==
    {Len(str)} \cup (IF Len(str) > 0 /\ Char(str, Len(str)) = "\n" THEN {Len(str) - 1} ELSE {})

\* re.search(r'^#(?:[0-9a-fA-F]{3}){1,2}$', string)
is_hex_color(str) ==
    \E e \in DollarAt(str) :
      /\ e \in {4, 7}
      /\ Char(str, 1) = "#"
      /\ AllIn(str, 2, e, HexDigits)

\* re.search(r'^(\d{4}/\d{2}/\d{2})$', dob)
MatchesDob(str) ==
    /\ 10 \in DollarAt(str)
    /\ AllIn(str, 1, 4, Digits)
    /\ Char(str, 5) = "/"
    /\ AllIn(str, 6, 7, Digits)
    /\ Char(str, 8) = "/"
    /\ AllIn(str, 9, 10, Digits)

\* re.search(r'^(\d+-\d+)$', age_range)
MatchesAgeRange(str) ==
    \E e \in DollarAt(str) :
      \E h \in 2..(e - 1) :
        /\ Char(str, h) = "-"
        /\ AllIn(str, 1, h - 1, Digits)
        /\ AllIn(str, h + 1, e, Digits)

\* re.search(r'^([0-9]{4})$', passcode)
MatchesPasscode(str) == 4 \in DollarAt(str) /\ AllIn(str, 1, 4, Digits)

(***************************************************************************)
(* base64.b64encode and the local file system                              *)
(***************************************************************************)
\* The printable ASCII characters by code, without the double quote (34), the
\* backslash (92) and the backquote (96): codes 32..33, 35..91, 93..95, 97..126.
Ascii32 == " !"

Ascii35 == "#$%&'()*+,-./0123456789:;<=>?@ABCDEFGHIJKLMNOPQRSTUVWXYZ["

Ascii93 == "]^_"

Ascii97 == "abcdefghijklmnopqrstuvwxyz{|}~"

HasChar(str, c) == \E i \in 1..Len(str) : Char(str, i) = c

IndexIn(str, c) == CHOOSE i \in 1..Len(str) : Char(str, i) = c

\* ord(c)
Ord(c) ==
    IF HasChar(Ascii32, c) THEN 31 + IndexIn(Ascii32, c)
    ELSE IF HasChar(Ascii35, c) THEN 34 + IndexIn(Ascii35, c)
    ELSE IF HasChar(Ascii93, c) THEN 92 + IndexIn(Ascii93, c)
    ELSE 96 + IndexIn(Ascii97, c)

B64Alphabet == "ABCDEFGHIJKLMNOPQRSTUVWXYZabcdefghijklmnopqrstuvwxyz0123456789+/"

B64Char(sextet) == Char(B64Alphabet, sextet + 1)

\* base64.b64encode(data): three bytes to four characters, '=' padding at the end.
RECURSIVE b64encode(_)
b64encode(data) ==
    IF Len(data) = 0 THEN ""
    ELSE LET b1 == Ord(Char(data, 1))
             b2 == IF Len(data) >= 2 THEN Ord(Char(data, 2)) ELSE 0
             b3 == IF Len(data) >= 3 THEN Ord(Char(data, 3)) ELSE 0
             bits == b1 * 65536 + b2 * 256 + b3
             c1 == B64Char(bits \div 262144)
             c2 == B64Char((bits \div 4096) % 64)
             c3 == IF Len(data) >= 2 THEN B64Char((bits \div 64) % 64) ELSE "="
             c4 == IF Len(data) >= 3 THEN B64Char(bits % 64) ELSE "="
         IN c1 \o c2 \o c3 \o c4 \o
            (IF Len(data) > 3 THEN b64encode(SubSeq(data, 4, Len(data))) ELSE "")

\* The files that exist on the local disk, with their content.
FileContent ==
    "sampleid.jpg" :> "JPG" @@ "sampleface.png" :> "PNG!" @@ "face_video.mp4" :> "MP4AB"

\* os.path.isfile(path)
isfile(path) == path \in DOMAIN FileContent

\* open(path, "rb").read()
ReadFile(path) == FileContent[path]

(***************************************************************************)
(* Module constants and the class-level default tables                     *)
(***************************************************************************)
client_library == "python-sdk"

CoreAPI_DEFAULT_CONFIG ==
    "accuracy" :> PyInt(2) @@
    "authenticate" :> PyBool(FALSE) @@
    "authenticate_module" :> PyInt(1) @@
    "ocr_scaledown" :> PyInt(2000) @@
    "outputimage" :> PyBool(FALSE) @@
    "outputface" :> PyBool(FALSE) @@
    "outputmode" :> PyStr("url") @@
    "dualsidecheck" :> PyBool(FALSE) @@
    "verify_expiry" :> PyBool(TRUE) @@
    "verify_documentno" :> PyStr("") @@
    "verify_name" :> PyStr("") @@
    "verify_dob" :> PyStr("") @@
    "verify_age" :> PyStr("") @@
    "verify_address" :> PyStr("") @@
    "verify_postcode" :> PyStr("") @@
    "country" :> PyStr("") @@
    "region" :> PyStr("") @@
    "type" :> PyStr("") @@
    "checkblocklist" :> PyStr("") @@
    "vault_save" :> PyBool(TRUE) @@
    "vault_saveunrecognized" :> PyStr("") @@
    "vault_noduplicate" :> PyStr("") @@
    "vault_automerge" :> PyStr("") @@
    "vault_customdata1" :> PyStr("") @@
    "vault_customdata2" :> PyStr("") @@
    "vault_customdata3" :> PyStr("") @@
    "vault_customdata4" :> PyStr("") @@
    "vault_customdata5" :> PyStr("") @@
    "barcodemode" :> PyBool(FALSE) @@
    "biometric_threshold" :> PyFloat(4) @@
    "aml_check" :> PyBool(FALSE) @@
    "aml_strict_match" :> PyBool(FALSE) @@
    "aml_database" :> PyStr("") @@
    "contract_generate" :> PyStr("") @@
    "contract_format" :> PyStr("") @@
    "contract_prefill_data" :> PyStr("") @@
    "client" :> PyStr(client_library)

DocuPass_DEFAULT_CONFIG ==
    "companyname" :> PyStr("") @@
    "callbackurl" :> PyStr("") @@
    "biometric" :> PyInt(0) @@
    "authenticate_minscore" :> PyInt(0) @@
    "authenticate_module" :> PyInt(2) @@
    "maxattempt" :> PyInt(1) @@
    "documenttype" :> PyStr("") @@
    "documentcountry" :> PyStr("") @@
    "documentregion" :> PyStr("") @@
    "dualsidecheck" :> PyBool(FALSE) @@
    "verify_expiry" :> PyBool(FALSE) @@
    "verify_documentno" :> PyStr("") @@
    "verify_name" :> PyStr("") @@
    "verify_dob" :> PyStr("") @@
    "verify_age" :> PyStr("") @@
    "verify_address" :> PyStr("") @@
    "verify_postcode" :> PyStr("") @@
    "successredir" :> PyStr("") @@
    "failredir" :> PyStr("") @@
    "customid" :> PyStr("") @@
    "vault_save" :> PyBool(TRUE) @@
    "return_documentimage" :> PyBool(TRUE) @@
    "return_faceimage" :> PyBool(TRUE) @@
    "return_type" :> PyInt(1) @@
    "qr_color" :> PyStr("") @@
    "qr_bgcolor" :> PyStr("") @@
    "qr_size" :> PyStr("") @@
    "qr_margin" :> PyStr("") @@
    "welcomemessage" :> PyStr("") @@
    "nobranding" :> PyStr("") @@
    "logo" :> PyStr("") @@
    "language" :> PyStr("") @@
    "biometric_threshold" :> PyFloat(4) @@
    "reusable" :> PyBool(FALSE) @@
    "aml_check" :> PyBool(FALSE) @@
    "aml_strict_match" :> PyBool(FALSE) @@
    "aml_database" :> PyStr("") @@
    "phoneverification" :> PyBool(FALSE) @@
    "verify_phone" :> PyStr("") @@
    "sms_verification_link" :> PyStr("") @@
    "customhtmlurl" :> PyStr("") @@
    "contract_generate" :> PyStr("") @@
    "contract_sign" :> PyStr("") @@
    "contract_format" :> PyStr("") @@
    "contract_prefill_data" :> PyStr("") @@
    "sms_contract_link" :> PyStr("") @@
    "client" :> PyStr(client_library)

(***************************************************************************)
(* State                                                                   *)
(***************************************************************************)
VARIABLES
    cls,            \* the client class the program instantiates (both instances)
    heap,           \* the dict objects, by identity: the class attributes DEFAULT_CONFIG
    config,         \* self.config of each instance: a reference to a dict object
    apikey,         \* self.apikey of each instance
    throw_error,    \* self.throw_error of each instance
    apiendpoint,    \* self.apiendpoint of each instance
    AMLDatabases,   \* self.AMLDatabases of each instance (AMLAPI)
    AMLEntityType,  \* self.AMLEntityType of each instance (AMLAPI)
    call,           \* the most recent call: method, receiver, arguments, outcome, requests sent
    pc,             \* per thread: the statement of scan() it is about to run
    frame,          \* per thread: the local variables of its scan() call
    posted,         \* per thread: the request its last completed scan() posted
    setter_calls,   \* how many validating setters the program has called
    image_calls     \* how many calls the program has made to classify an image argument

vars == <<cls, heap, config, apikey, throw_error, apiendpoint, AMLDatabases,
          AMLEntityType, call, pc, frame, posted, setter_calls,
          image_calls>>

objvars == <<cls, config, apikey, apiendpoint>>

threadvars == <<pc, frame, posted>>

Classes == {"CoreAPI", "DocuPass", "Vault", "AMLAPI"}

\* The two client objects of the program; each has its own API key.
Inst == {"A", "B"}

\* The identities of the two class-level dict objects.
DictOf(c) == c \o ".DEFAULT_CONFIG"

NoDict == "none"

\* The dict object self.config refers to.
Cfg(self) == heap[config[self]]

(***************************************************************************)
(* Statement results: the heap after the statements, and the exception     *)
(* raised, if any.                                                         *)
(***************************************************************************)
Done(h) == [heap |-> h, raised |-> "", msg |-> ""]

Raise(h, exc, msg) == [heap |-> h, raised |-> exc, msg |-> msg]

\* obj[key] = value, for the dict object with identity ref.
SetItem(h, ref, key, value) == [h EXCEPT ![ref] = Put(@, key, value)]

(***************************************************************************)
(* Constructors                                                            *)
(***************************************************************************)
UpperOf(c) == IF c \in LowerCase THEN Char("ABCDEFGHIJKLMNOPQRSTUVWXYZ", IndexIn("abcdefghijklmnopqrstuvwxyz", c)) ELSE c

\* str.upper()
RECURSIVE upper(_)
upper(str) == IF Len(str) = 0 THEN "" ELSE UpperOf(Head(str)) \o upper(Tail(str))

NoObject == [config |-> NoDict, apikey |-> "", throw_error |-> FALSE, apiendpoint |-> "",
             AMLDatabases |-> PyNone, AMLEntityType |-> PyNone]

Constructed(h, obj) == [heap |-> h, raised |-> "", msg |-> "", obj |-> obj]

NotConstructed(h, msg) == [heap |-> h, raised |-> "ValueError", msg |-> msg, obj |-> NoObject]

\* CoreAPI.__init__(self, apikey, region="US")
CoreAPI_init(h, key, region) ==
    IF key = "" THEN NotConstructed(h, "Please provide an API key")
    ELSE IF region = "" THEN NotConstructed(h, "Please set an API region (US, EU)")
    ELSE Constructed(h, [NoObject EXCEPT
            !.config = DictOf("CoreAPI"),
            !.apikey = key,
            !.throw_error = FALSE,
            !.apiendpoint = IF upper(region) = "EU" THEN "https://api-eu.idanalyzer.com/"
                            ELSE IF upper(region) = "US" THEN "https://api.idanalyzer.com/"
                            ELSE region])

\* DocuPass.__init__(self, apikey, company_name="My Company Name", region="US")
DocuPass_init(h, key, company_name, region) ==
    IF key = "" THEN NotConstructed(h, "Please provide an API key")
    ELSE IF company_name = "" THEN NotConstructed(h, "Please provide your company name")
    ELSE IF region = "" THEN NotConstructed(h, "Please set an API region (US, EU)")
    ELSE Constructed(SetItem(h, DictOf("DocuPass"), "companyname", PyStr(company_name)),
           [NoObject EXCEPT
            !.config = DictOf("DocuPass"),
            !.apikey = key,
            !.throw_error = FALSE,
            !.apiendpoint = IF upper(region) = "EU" THEN "https://api-eu.idanalyzer.com/"
                            ELSE IF upper(region) = "US" THEN "https://api.idanalyzer.com/"
                            ELSE region])

\* Vault.__init__ comparing the region without str.upper()
Vault_init_case_sensitive(h, key, region) ==
    IF key = "" THEN NotConstructed(h, "Please provide an API key")
    ELSE IF region = "" THEN NotConstructed(h, "Please set an API region (US, EU)")
    ELSE Constructed(h, [NoObject EXCEPT
            !.apikey = key,
            !.throw_error = FALSE,
            !.apiendpoint = IF region = "EU" THEN "https://api-eu.idanalyzer.com/"
                            ELSE IF region = "US" THEN "https://api.idanalyzer.com/"
                            ELSE region])

\* Vault.__init__(self, apikey, region="US")
Vault_init(h, key, region) ==
    IF key = "" THEN NotConstructed(h, "Please provide an API key")
    ELSE IF region = "" THEN NotConstructed(h, "Please set an API region (US, EU)")
    ELSE Constructed(h, [NoObject EXCEPT
            !.apikey = key,
            !.throw_error = FALSE,
            !.apiendpoint = IF upper(region) = "EU" THEN "https://api-eu.idanalyzer.com/"
                            ELSE IF upper(region) = "US" THEN "https://api.idanalyzer.com/"
                            ELSE region])

\* AMLAPI.__init__(self, apikey, region="US")
AMLAPI_init(h, key, region) ==
    IF key = "" THEN NotConstructed(h, "Please provide an API key")
    ELSE IF region = "" THEN NotConstructed(h, "Please set an API region (US, EU)")
    ELSE Constructed(h, [NoObject EXCEPT
            !.apikey = key,
            !.throw_error = FALSE,
            !.AMLDatabases = PyStr(""),
            !.AMLEntityType = PyStr(""),
            !.apiendpoint = IF upper(region) = "EU" THEN "https://api-eu.idanalyzer.com/aml"
                            ELSE IF upper(region) = "US" THEN "https://api.idanalyzer.com/aml"
                            ELSE region])

\* The constructor call of class c.
New(c, h, key, company_name, region) ==
    CASE c = "CoreAPI" -> CoreAPI_init(h, key, region)
      [] c = "DocuPass" -> DocuPass_init(h, key, company_name, region)
      [] c = "Vault" -> Vault_init(h, key, region)
      [] c = "AMLAPI" -> AMLAPI_init(h, key, region)

\* The dict objects that exist once the module is imported.
ImportedHeap ==
    DictOf("CoreAPI") :> CoreAPI_DEFAULT_CONFIG @@ DictOf("DocuPass") :> DocuPass_DEFAULT_CONFIG

NoCall == [op |-> "", self |-> "", args |-> EmptyDict, outcome |-> "none",
           exc |-> PyNone, ret |-> PyNone, sent |-> <<>>]

NoFrame == [options |-> EmptyDict, payload |-> NoDict, raised |-> ""]

NoRequest == [url |-> "", data |-> EmptyDict]

\* The program constructs instance A, then instance B, both of class c, with
\* different API keys (A in region US, B in region EU).
InitFor(c) ==
    LET a == New(c, ImportedHeap, "key-A", "Company A", "US")
        b == New(c, a.heap, "key-B", "Company B", "EU")
        obj == [i \in Inst |-> IF i = "A" THEN a.obj ELSE b.obj]
    IN /\ cls = c
       /\ heap = b.heap
       /\ config = [i \in Inst |-> obj[i].config]
       /\ apikey = [i \in Inst |-> obj[i].apikey]
       /\ throw_error = [i \in Inst |-> obj[i].throw_error]
       /\ apiendpoint = [i \in Inst |-> obj[i].apiendpoint]
       /\ AMLDatabases = [i \in Inst |-> obj[i].AMLDatabases]
       /\ AMLEntityType = [i \in Inst |-> obj[i].AMLEntityType]
       /\ call = NoCall
       /\ pc = [i \in Inst |-> "idle"]
       /\ frame = [i \in Inst |-> NoFrame]
       /\ posted = [i \in Inst |-> NoRequest]
       /\ setter_calls = 0
       /\ image_calls = 0

(***************************************************************************)
(* The remote API: what one POST meets                                     *)
(***************************************************************************)
\* {"result": {...}}
BodyResult == "result" :> PyDict("documentNumber" :> PyStr("X1234567"))

\* {"error": {"code": 5, "message": "bad"}}
BodyError == "error" :> PyDict("code" :> PyInt(5) @@ "message" :> PyStr("bad"))

\* {"error": {}, "result": {...}}: an error field that is empty
BodyEmptyError ==
    "error" :> PyDict(EmptyDict) @@ "result" :> PyDict("documentNumber" :> PyStr("X1234567"))

\* {"success": true}
BodySuccess == "success" :> PyBool(TRUE)

\* {"error": {"code": 9, "message": "denied"}}: no success field
BodyDenied == "error" :> PyDict("code" :> PyInt(9) @@ "message" :> PyStr("denied"))

Bodies == {BodyResult, BodyError, BodyEmptyError, BodySuccess, BodyDenied}

\* What a POST meets: no connection (requests.post raises), or a response with a
\* status code and a JSON body.
Net(failed, status_code, json) == [failed |-> failed, status_code |-> status_code, json |-> json]

NetOutcomes ==
    {Net(TRUE, 0, EmptyDict), Net(FALSE, 500, EmptyDict), Net(FALSE, 403, BodyError)}
    \cup {Net(FALSE, 200, b) : b \in Bodies}

\* requests.Response.raise_for_status(): an HTTPError for a 4xx or 5xx status.
raises_for_status(status_code) == status_code >= 400 /\ status_code < 600

\* How a call ends.
Returns(value) == [outcome |-> "return", exc |-> PyNone, ret |-> value]

Raises(exc, value) == [outcome |-> exc, exc |-> value, ret |-> PyNone]

\* A call whose POST would come before the argument checks: the request is
\* sent even when the statements raise.
CallRecord_posts_first(op, self, args, r, end, sent) ==
    [op |-> op, self |-> self, args |-> args,
     outcome |-> IF r.raised # "" THEN r.raised ELSE end.outcome,
     exc |-> IF r.raised # "" THEN PyStr(r.msg) ELSE end.exc,
     ret |-> IF r.raised # "" THEN PyNone ELSE end.ret,
     sent |-> sent]

\* The record of a finished call, from the statements' result r (the heap, and
\* the exception raised before any request) and, when nothing was raised, the
\* end of the call and the requests it sent.
CallRecord(op, self, args, r, end, sent) ==
    [op |-> op, self |-> self, args |-> args,
     outcome |-> IF r.raised # "" THEN r.raised ELSE end.outcome,
     exc |-> IF r.raised # "" THEN PyStr(r.msg) ELSE end.exc,
     ret |-> IF r.raised # "" THEN PyNone ELSE end.ret,
     sent |-> IF r.raised # "" THEN <<>> ELSE sent]

\* A setter call: the statements' result r, no request.
Setter(op, self, args, r) ==
    /\ \E done \in {r} :
         /\ heap' = done.heap
         /\ call' = CallRecord(op, self, args, done, Returns(PyNone), <<>>)
    /\ UNCHANGED <<objvars, throw_error, AMLDatabases, AMLEntityType, threadvars, setter_calls, image_calls>>

\* The program calls at most MaxSetterCalls validating setters.
MaxSetterCalls == 2

\* A call of a validating setter: the statements' result r, no request.
Validating(op, self, args, r) ==
    /\ setter_calls < MaxSetterCalls
    /\ setter_calls' = setter_calls + 1
    /\ \E done \in {r} :
         /\ heap' = done.heap
         /\ call' = CallRecord(op, self, args, done, Returns(PyNone), <<>>)
    /\ UNCHANGED <<objvars, throw_error, AMLDatabases, AMLEntityType, threadvars, image_calls>>

\* One POST: the request sent and what it met.
Exchange(req, net) == [request |-> req, response |-> net]

\* An action call: the statements' result r, then one POST of the request req
\* that meets net, ended by end.
Action(op, self, args, r, req, net, end) ==
    /\ \E done \in {r} :
         /\ heap' = done.heap
         /\ call' = CallRecord(op, self, args, done, end, <<Exchange(req, net)>>)
    /\ UNCHANGED <<objvars, throw_error, AMLDatabases, AMLEntityType, threadvars, setter_calls, image_calls>>

\* x in range(lo, hi)
InRange(v, lo, hi) == IsNumber(v) /\ Tenths(v) % 10 = 0 /\ 10 * lo <= Tenths(v) /\ Tenths(v) < 10 * hi

\* CoreAPI.throw_api_exception taking any truthy argument for True
CoreAPI_throw_api_exception_truthy(throw_exception) == Truthy(throw_exception)

(***************************************************************************)
(* CoreAPI                                                                 *)
(***************************************************************************)
\* CoreAPI.throw_api_exception(self, throw_exception=False)
CoreAPI_throw_api_exception(throw_exception) == IsTrue(throw_exception)

\* CoreAPI.reset_config(self): the dict object self.config refers to afterwards
CoreAPI_reset_config(self) == DictOf("CoreAPI")

\* CoreAPI.set_accuracy(self, accuracy=2)
CoreAPI_set_accuracy(h, self, accuracy) == Done(SetItem(h, config[self], "accuracy", accuracy))

\* CoreAPI.enable_authentication(self, enabled=False, module=2)
CoreAPI_enable_authentication(h, self, enabled, module) ==
    LET h1 == SetItem(h, config[self], "authenticate", PyBool(IsTrue(enabled)))
    IN IF Truthy(enabled) /\ ~PyEq(module, PyInt(1)) /\ ~PyEq(module, PyInt(2))
          /\ ~PyEq(module, PyStr("quick"))
       THEN Raise(h1, "ValueError", "Invalid authentication module, 1, 2 or 'quick' accepted.")
       ELSE Done(SetItem(h1, config[self], "authenticate_module", module))

\* CoreAPI.set_ocr_image_resize(self, max_scale=2000)
CoreAPI_set_ocr_image_resize(h, self, max_scale) ==
    IF ~PyEq(max_scale, PyInt(0)) /\ (Tenths(max_scale) < 5000 \/ Tenths(max_scale) > 40000)
    THEN Raise(h, "ValueError", "Invalid scale value, 0, or 500 to 4000 accepted.")
    ELSE Done(SetItem(h, config[self], "ocr_scaledown", max_scale))

\* CoreAPI.set_biometric_threshold(self, threshold=0.4)
CoreAPI_set_biometric_threshold(h, self, threshold) ==
    IF Tenths(threshold) <= 0 \/ Tenths(threshold) > 10
    THEN Raise(h, "ValueError", "Invalid threshold value, float between 0 to 1 accepted.")
    ELSE Done(SetItem(h, config[self], "biometric_threshold", threshold))

\* CoreAPI.enable_image_output(self, crop_document=False, crop_face=False, output_format="url")
CoreAPI_enable_image_output(h, self, crop_document, crop_face, output_format) ==
    IF ~PyEq(output_format, PyStr("url")) /\ ~PyEq(output_format, PyStr("base64"))
    THEN Raise(h, "ValueError", "Invalid output format, 'url' or 'base64' accepted.")
    ELSE LET h1 == SetItem(h, config[self], "outputimage", PyBool(IsTrue(crop_document)))
             h2 == SetItem(h1, config[self], "outputface", PyBool(IsTrue(crop_face)))
         IN Done(SetItem(h2, config[self], "outputmode", output_format))

\* CoreAPI.verify_dob(self, dob)
CoreAPI_verify_dob(h, self, dob) ==
    IF ~Truthy(dob) THEN Done(SetItem(h, config[self], "verify_dob", PyStr("")))
    ELSE IF ~MatchesDob(dob.s) THEN Raise(h, "ValueError", "Invalid birthday format (YYYY/MM/DD)")
    ELSE Done(SetItem(h, config[self], "verify_dob", dob))

\* CoreAPI.verify_age(self, age_range)
CoreAPI_verify_age(h, self, age_range) ==
    IF ~Truthy(age_range) THEN Done(SetItem(h, config[self], "verify_age", PyStr("")))
    ELSE IF ~MatchesAgeRange(age_range.s)
    THEN Raise(h, "ValueError", "Invalid age range format (minAge-maxAge)")
    ELSE Done(SetItem(h, config[self], "verify_age", age_range))

\* CoreAPI.generate_contract(self, template_id, out_format="PDF", prefill_data=None)
CoreAPI_generate_contract(h, self, template_id, out_format, prefill_data) ==
    LET prefill == IF prefill_data = PyNone THEN PyDict(EmptyDict) ELSE prefill_data
    IN IF ~Truthy(template_id) THEN Raise(h, "ValueError", "Invalid template ID")
       ELSE LET h1 == SetItem(h, config[self], "contract_generate", template_id)
                h2 == SetItem(h1, config[self], "contract_format", out_format)
            IN Done(SetItem(h2, config[self], "contract_prefill_data", prefill))

\* CoreAPI.set_parameter(self, parameter_key, parameter_value)
CoreAPI_set_parameter(h, self, parameter_key, parameter_value) ==
    Done(SetItem(h, config[self], parameter_key, parameter_value))

\* CoreAPI.scan, lines 413-414: payload = self.config; payload["apikey"] = self.apikey.
\* payload is a reference to the dict object self.config refers to.
CoreAPI_scan_payload(self) == config[self]

CoreAPI_scan_apikey(h, self, payload) == Done(SetItem(h, payload, "apikey", PyStr(apikey[self])))

\* CoreAPI.scan, lines 416-427: document_primary
CoreAPI_scan_document_primary(h, payload, options) ==
    LET arg == Get(options, "document_primary")
    IN IF ~Truthy(arg) THEN Raise(h, "ValueError", "Primary document image required.")
       ELSE IF is_valid_url(arg.s) THEN Done(SetItem(h, payload, "url", arg))
       ELSE IF isfile(arg.s)
       THEN Done(SetItem(h, payload, "file_base64", PyBytes(b64encode(ReadFile(arg.s)))))
       ELSE IF Len(arg.s) > 100 THEN Done(SetItem(h, payload, "file_base64", arg))
       ELSE Raise(h, "ValueError",
                  "Invalid primary document image, file not found or malformed URL.")

\* CoreAPI.scan, lines 429-438: document_secondary
CoreAPI_scan_document_secondary(h, payload, options) ==
    LET arg == Get(options, "document_secondary")
    IN IF ~Truthy(arg) THEN Done(h)
       ELSE IF is_valid_url(arg.s) THEN Done(SetItem(h, payload, "url_back", arg))
       ELSE IF isfile(arg.s)
       THEN Done(SetItem(h, payload, "file_back_base64", PyBytes(b64encode(ReadFile(arg.s)))))
       ELSE IF Len(arg.s) > 100 THEN Done(SetItem(h, payload, "file_back_base64", arg))
       ELSE Raise(h, "ValueError",
                  "Invalid secondary document image, file not found or malformed URL.")

\* CoreAPI.scan, lines 440-449: biometric_photo
CoreAPI_scan_biometric_photo(h, payload, options) ==
    LET arg == Get(options, "biometric_photo")
    IN IF ~Truthy(arg) THEN Done(h)
       ELSE IF is_valid_url(arg.s) THEN Done(SetItem(h, payload, "faceurl", arg))
       ELSE IF isfile(arg.s)
       THEN Done(SetItem(h, payload, "face_base64", PyBytes(b64encode(ReadFile(arg.s)))))
       ELSE IF Len(arg.s) > 100 THEN Done(SetItem(h, payload, "face_base64", arg))
       ELSE Raise(h, "ValueError", "Invalid face image, file not found or malformed URL.")

\* CoreAPI.scan, lines 451-466: biometric_video and biometric_video_passcode
CoreAPI_scan_biometric_video(h, payload, options) ==
    LET arg == Get(options, "biometric_video")
        passcode == Get(options, "biometric_video_passcode")
        h1 == IF is_valid_url(arg.s) THEN SetItem(h, payload, "videourl", arg)
              ELSE IF isfile(arg.s)
              THEN SetItem(h, payload, "video_base64", PyBytes(b64encode(ReadFile(arg.s))))
              ELSE SetItem(h, payload, "video_base64", arg)
    IN IF ~Truthy(arg) THEN Done(h)
       ELSE IF ~is_valid_url(arg.s) /\ ~isfile(arg.s) /\ ~(Len(arg.s) > 100)
       THEN Raise(h, "ValueError", "Invalid face video, file not found or malformed URL.")
       ELSE IF ~Truthy(passcode) \/ ~MatchesPasscode(passcode.s)
       THEN Raise(h1, "ValueError",
                  "Please provide a 4 digit passcode for video biometric verification.")
       ELSE Done(SetItem(h1, payload, "passcode", passcode))

\* CoreAPI.scan, line 468: the request requests.post sends
CoreAPI_scan_request(h, self, payload) == [url |-> apiendpoint[self], data |-> h[payload]]

\* CoreAPI.scan without line 469, r.raise_for_status()
CoreAPI_scan_end_unchecked_status(throw, net) ==
    IF net.failed THEN Raises("ConnectionError", PyNone)
    ELSE IF ~throw THEN Returns(PyDict(net.json))
    ELSE IF Truthy(Get(net.json, "error")) THEN Raises("APIError", net.json["error"])
    ELSE Returns(PyDict(net.json))

\* CoreAPI.scan, lines 468-478: how the call ends once the POST met net
CoreAPI_scan_end(throw, net) ==
    IF net.failed THEN Raises("ConnectionError", PyNone)
    ELSE IF raises_for_status(net.status_code) THEN Raises("HTTPError", PyInt(net.status_code))
    ELSE IF ~throw THEN Returns(PyDict(net.json))
    ELSE IF Truthy(Get(net.json, "error")) THEN Raises("APIError", net.json["error"])
    ELSE Returns(PyDict(net.json))

\* CoreAPI.scan(self, **options), lines 413-466: the statements before the POST
CoreAPI_scan(h, self, options) ==
    LET payload == CoreAPI_scan_payload(self)
        s1 == CoreAPI_scan_apikey(h, self, payload)
        s2 == CoreAPI_scan_document_primary(s1.heap, payload, options)
        s3 == IF s2.raised = "" THEN CoreAPI_scan_document_secondary(s2.heap, payload, options)
              ELSE s2
        s4 == IF s3.raised = "" THEN CoreAPI_scan_biometric_photo(s3.heap, payload, options)
              ELSE s3
    IN IF s4.raised = "" THEN CoreAPI_scan_biometric_video(s4.heap, payload, options) ELSE s4

(***************************************************************************)
(* DocuPass                                                                *)
(***************************************************************************)
\* DocuPass.throw_api_exception(self, throw_exception=False)
DocuPass_throw_api_exception(throw_exception) == IsTrue(throw_exception)

\* DocuPass.reset_config(self): the dict object self.config refers to afterwards
DocuPass_reset_config(self) == DictOf("DocuPass")

\* DocuPass.set_max_attempt(self, max_attempt=1)
DocuPass_set_max_attempt(h, self, max_attempt) ==
    IF ~InRange(max_attempt, 1, 10)
    THEN Raise(h, "ValueError", "Invalid max attempt, please specify integer between 1 to 10.")
    ELSE Done(SetItem(h, config[self], "maxattempt", max_attempt))

\* DocuPass.set_custom_id(self, custom_id)
DocuPass_set_custom_id(h, self, custom_id) == Done(SetItem(h, config[self], "customid", custom_id))

\* DocuPass.set_callback_url(self, url="https://www.example.com/docupass_callback.php")
DocuPass_set_callback_url(h, self, url) ==
    IF Truthy(url) /\ ~is_valid_url(url.s)
    THEN Raise(h, "ValueError", "Invalid URL, the host does not appear to be a remote host.")
    ELSE Done(SetItem(h, config[self], "callbackurl", url))

\* DocuPass.set_redirection_url(self, success_url=..., fail_url=...)
DocuPass_set_redirection_url(h, self, success_url, fail_url) ==
    IF Truthy(success_url) /\ ~is_valid_url(success_url.s)
    THEN Raise(h, "ValueError", "Invalid URL format for success URL")
    ELSE IF Truthy(fail_url) /\ ~is_valid_url(fail_url.s)
    THEN Raise(h, "ValueError", "Invalid URL format for fail URL")
    ELSE Done(SetItem(SetItem(h, config[self], "successredir", success_url),
                      config[self], "failredir", fail_url))

\* DocuPass.enable_authentication(self, enabled=False, module=2, minimum_score=0.3)
DocuPass_enable_authentication(h, self, enabled, module, minimum_score) ==
    IF ~Truthy(enabled) THEN Done(SetItem(h, config[self], "authenticate_minscore", PyInt(0)))
    ELSE IF ~(0 < Tenths(minimum_score) /\ Tenths(minimum_score) <= 10)
    THEN Raise(h, "ValueError", "Invalid minimum score, please specify float between 0 to 1.")
    ELSE IF Truthy(enabled) /\ ~PyEq(module, PyInt(1)) /\ ~PyEq(module, PyInt(2))
            /\ ~PyEq(module, PyStr("quick"))
    THEN Raise(h, "ValueError", "Invalid authentication module, 1, 2 or 'quick' accepted.")
    ELSE Done(SetItem(SetItem(h, config[self], "authenticate_module", module),
                      config[self], "authenticate_minscore", minimum_score))

\* DocuPass.enable_face_verification(self, enabled=False, verification_type=1, threshold=0.4)
DocuPass_enable_face_verification(h, self, enabled, verification_type, threshold) ==
    IF ~Truthy(enabled) THEN Done(SetItem(h, config[self], "biometric", PyInt(0)))
    ELSE IF PyEq(verification_type, PyInt(1)) \/ PyEq(verification_type, PyInt(2))
    THEN Done(SetItem(SetItem(h, config[self], "biometric", verification_type),
                      config[self], "biometric_threshold", threshold))
    ELSE Raise(h, "ValueError",
               "Invalid verification type, 1 for photo verification, 2 for video verification.")

\* DocuPass.set_qrcode_format(self, foreground_color="000000", background_color="FFFFFF",
\*                            size=5, margin=1)
DocuPass_set_qrcode_format(h, self, foreground_color, background_color, size, margin) ==
    IF ~is_hex_color(foreground_color.s)
    THEN Raise(h, "ValueError", "Invalid foreground color HEX code")
    ELSE IF ~is_hex_color(background_color.s)
    THEN Raise(h, "ValueError", "Invalid background color HEX code")
    ELSE IF ~InRange(size, 1, 50) THEN Raise(h, "ValueError", "Invalid image size (1-50)")
    ELSE IF ~InRange(margin, 0, 50) THEN Raise(h, "ValueError", "Invalid margin (0-50)")
    ELSE LET h1 == SetItem(h, config[self], "qr_color", foreground_color)
             h2 == SetItem(h1, config[self], "qr_bgcolor", background_color)
             h3 == SetItem(h2, config[self], "qr_size", size)
         IN Done(SetItem(h3, config[self], "qr_margin", margin))

\* DocuPass.verify_dob(self, dob)
DocuPass_verify_dob(h, self, dob) ==
    IF ~Truthy(dob) THEN Done(SetItem(h, config[self], "verify_dob", PyStr("")))
    ELSE IF ~MatchesDob(dob.s) THEN Raise(h, "ValueError", "Invalid birthday format (YYYY/MM/DD)")
    ELSE Done(SetItem(h, config[self], "verify_dob", dob))

\* DocuPass.verify_age(self, age_range="18-99")
DocuPass_verify_age(h, self, age_range) ==
    IF ~Truthy(age_range) THEN Done(SetItem(h, config[self], "verify_age", PyStr("")))
    ELSE IF ~MatchesAgeRange(age_range.s)
    THEN Raise(h, "ValueError", "Invalid age range format (minAge-maxAge)")
    ELSE Done(SetItem(h, config[self], "verify_age", age_range))

\* DocuPass.set_parameter(self, parameter_key, parameter_value)
DocuPass_set_parameter(h, self, parameter_key, parameter_value) ==
    Done(SetItem(h, config[self], parameter_key, parameter_value))

\* DocuPass.generate_contract(self, template_id, out_format="PDF", prefill_data=None)
DocuPass_generate_contract(h, self, template_id, out_format, prefill_data) ==
    LET prefill == IF prefill_data = PyNone THEN PyDict(EmptyDict) ELSE prefill_data
    IN IF ~Truthy(template_id) THEN Raise(h, "ValueError", "Invalid template ID")
       ELSE LET h1 == SetItem(h, config[self], "contract_sign", PyStr(""))
                h2 == SetItem(h1, config[self], "contract_generate", template_id)
                h3 == SetItem(h2, config[self], "contract_format", out_format)
            IN Done(SetItem(h3, config[self], "contract_prefill_data", prefill))

\* DocuPass.sign_contract(self, template_id, out_format="PDF", prefill_data=None)
DocuPass_sign_contract(h, self, template_id, out_format, prefill_data) ==
    LET prefill == IF prefill_data = PyNone THEN PyDict(EmptyDict) ELSE prefill_data
    IN IF ~Truthy(template_id) THEN Raise(h, "ValueError", "Invalid template ID")
       ELSE LET h1 == SetItem(h, config[self], "contract_generate", PyStr(""))
                h2 == SetItem(h1, config[self], "contract_sign", template_id)
                h3 == SetItem(h2, config[self], "contract_format", out_format)
            IN Done(SetItem(h3, config[self], "contract_prefill_data", prefill))

\* DocuPass.create_signature, lines 1012-1020: the statements before the POST.
\* payload = self.config is a reference to the dict object self.config refers to.
DocuPass_create_signature(h, self, template_id, out_format, prefill_data) ==
    LET prefill == IF prefill_data = PyNone THEN PyDict(EmptyDict) ELSE prefill_data
        payload == config[self]
    IN IF ~Truthy(template_id) THEN Raise(h, "ValueError", "Invalid template ID")
       ELSE LET h1 == SetItem(h, payload, "apikey", PyStr(apikey[self]))
                h2 == SetItem(h1, payload, "template_id", template_id)
                h3 == SetItem(h2, payload, "contract_format", out_format)
            IN Done(SetItem(h3, payload, "contract_prefill_data", prefill))

\* DocuPass.create_signature, line 1022: the request
DocuPass_create_signature_request(h, self) ==
    [url |-> apiendpoint[self] \o "docupass/sign", data |-> h[config[self]]]

\* DocuPass.create_signature, lines 1022-1032: how the call ends once the POST met net
DocuPass_create_signature_end(throw, net) ==
    IF net.failed THEN Raises("ConnectionError", PyNone)
    ELSE IF raises_for_status(net.status_code) THEN Raises("HTTPError", PyInt(net.status_code))
    ELSE IF ~throw THEN Returns(PyDict(net.json))
    ELSE IF Truthy(Get(net.json, "error")) THEN Raises("APIError", net.json["error"])
    ELSE Returns(PyDict(net.json))

\* DocuPass.__create writing payload["type"] only when the dict has no type yet
DocuPass_create_keeps_type(h, self, docupass_module) ==
    LET payload == config[self]
        h1 == SetItem(h, payload, "apikey", PyStr(apikey[self]))
    IN Done(IF "type" \in DOMAIN h1[payload] THEN h1
            ELSE SetItem(h1, payload, "type", PyInt(docupass_module)))

\* DocuPass.__create(self, docupass_module), lines 1080-1082: the statements before the POST
DocuPass_create(h, self, docupass_module) ==
    LET payload == config[self]
        h1 == SetItem(h, payload, "apikey", PyStr(apikey[self]))
    IN Done(SetItem(h1, payload, "type", PyInt(docupass_module)))

\* DocuPass.__create, line 1084: the request
DocuPass_create_request(h, self) ==
    [url |-> apiendpoint[self] \o "docupass/create", data |-> h[config[self]]]

\* DocuPass.__create, lines 1084-1094: how the call ends once the POST met net
DocuPass_create_end(throw, net) ==
    IF net.failed THEN Raises("ConnectionError", PyNone)
    ELSE IF raises_for_status(net.status_code) THEN Raises("HTTPError", PyInt(net.status_code))
    ELSE IF ~throw THEN Returns(PyDict(net.json))
    ELSE IF Truthy(Get(net.json, "error")) THEN Raises("APIError", net.json["error"])
    ELSE Returns(PyDict(net.json))

\* DocuPass.create_iframe / create_mobile / create_redirection / create_live_mobile:
\* the module number each passes to __create
DocuPass_create_iframe == 0

DocuPass_create_mobile == 1

DocuPass_create_redirection == 2

DocuPass_create_live_mobile == 3

\* DocuPass.validate, lines 1106-1113: the request
DocuPass_validate_request(self, reference, hash) ==
    [url |-> apiendpoint[self] \o "docupass/validate",
     data |-> "apikey" :> PyStr(apikey[self]) @@ "reference" :> reference @@ "hash" :> hash @@
              "client" :> PyStr(client_library)]

\* DocuPass.validate ended by the transport tail of the other actions
DocuPass_validate_end_by_mode(throw, net) ==
    IF net.failed THEN Raises("ConnectionError", PyNone)
    ELSE IF raises_for_status(net.status_code) THEN Raises("HTTPError", PyInt(net.status_code))
    ELSE IF ~throw THEN Returns(PyDict(net.json))
    ELSE IF Truthy(Get(net.json, "error")) THEN Raises("APIError", net.json["error"])
    ELSE Returns(PyDict(net.json))

\* DocuPass.validate, lines 1113-1116: how the call ends once the POST met net
DocuPass_validate_end(throw, net) ==
    IF net.failed THEN Raises("ConnectionError", PyNone)
    ELSE IF raises_for_status(net.status_code) THEN Raises("HTTPError", PyInt(net.status_code))
    ELSE Returns(Get(net.json, "success"))

(***************************************************************************)
(* Vault                                                                   *)
(***************************************************************************)
\* The statements of a Vault or AMLAPI method before __api: the payload dict
\* they build, or the exception they raise.
Built(payload) == [raised |-> "", msg |-> "", payload |-> payload]

Refused(msg) == [raised |-> "ValueError", msg |-> msg, payload |-> EmptyDict]

\* The identity of the dict object the program passes to Vault.update.
CallerData == "data"

\* The dict objects left once the program has dropped the dict it passed to an
\* earlier Vault.update.
Released(h) == [ref \in DOMAIN h \ {CallerData} |-> h[ref]]

\* A Vault or AMLAPI call that posts again when the first POST did not connect
\* or got an error status.
Remote_retrying(op, self, args, r, req, net, end) ==
    /\ \E done \in {r} :
         call' = CallRecord(op, self, args, done, end,
                            IF net.failed \/ raises_for_status(net.status_code)
                            THEN <<Exchange(req, net), Exchange(req, net)>>
                            ELSE <<Exchange(req, net)>>)
    /\ heap' = Released(heap)
    /\ UNCHANGED <<objvars, throw_error, AMLDatabases, AMLEntityType, threadvars, setter_calls, image_calls>>

\* An action call of Vault or AMLAPI that builds its payload itself: it writes
\* to no dict object of the heap.
Remote(op, self, args, r, req, net, end) ==
    /\ \E done \in {r} :
         call' = CallRecord(op, self, args, done, end, <<Exchange(req, net)>>)
    /\ heap' = Released(heap)
    /\ UNCHANGED <<objvars, throw_error, AMLDatabases, AMLEntityType, threadvars, setter_calls, image_calls>>

\* Vault.throw_api_exception(self, throw_exception=False)
Vault_throw_api_exception(throw_exception) == IsTrue(throw_exception)

\* Vault.get(self, vault_id)
Vault_get(vault_id) ==
    IF ~Truthy(vault_id) THEN Refused("Vault entry ID required.")
    ELSE Built("id" :> vault_id)

\* Vault.list refusing a filter list only when it exceeds 6 statements
Vault_list_six_filters(options) ==
    LET filter == Get(options, "filter")
        p0 == IF Truthy(filter) THEN "filter" :> filter ELSE EmptyDict
        p1 == Put(p0, "orderby", IF Truthy(Get(options, "orderby")) THEN options["orderby"]
                                 ELSE PyStr("createtime"))
        p2 == Put(p1, "sort", IF Truthy(Get(options, "sort")) THEN options["sort"]
                              ELSE PyStr("DESC"))
        p3 == Put(p2, "limit", IF Truthy(Get(options, "limit")) THEN options["limit"]
                               ELSE PyInt(10))
        p4 == Put(p3, "offset", IF Truthy(Get(options, "offset")) THEN options["offset"]
                                ELSE PyInt(0))
    IN IF Truthy(filter) /\ (filter.ty # "list" \/ Len(filter.l) > 6)
       THEN Refused("Filter must be an array and must not exceed maximum 5 filter strings.")
       ELSE Built(p4)

\* Vault.list(self, **options)
Vault_list(options) ==
    LET filter == Get(options, "filter")
        p0 == IF Truthy(filter) THEN "filter" :> filter ELSE EmptyDict
        p1 == Put(p0, "orderby", IF Truthy(Get(options, "orderby")) THEN options["orderby"]
                                 ELSE PyStr("createtime"))
        p2 == Put(p1, "sort", IF Truthy(Get(options, "sort")) THEN options["sort"]
                              ELSE PyStr("DESC"))
        p3 == Put(p2, "limit", IF Truthy(Get(options, "limit")) THEN options["limit"]
                               ELSE PyInt(10))
        p4 == Put(p3, "offset", IF Truthy(Get(options, "offset")) THEN options["offset"]
                                ELSE PyInt(0))
    IN IF Truthy(filter) /\ (filter.ty # "list" \/ Len(filter.l) > 5)
       THEN Refused("Filter must be an array and must not exceed maximum 5 filter strings.")
       ELSE Built(p4)

\* Vault.update(self, vault_id, data=None): data['id'] = vault_id is written
\* into the caller's dict, which is the payload
Vault_update(vault_id, data) ==
    IF ~Truthy(vault_id) THEN Refused("Vault entry ID required.")
    ELSE IF data.ty # "dict" THEN Refused("Data needs to be a dictionary.")
    ELSE IF Cardinality(DOMAIN data.d) < 1 THEN Refused("Minimum one set of data required.")
    ELSE Built(Put(data.d, "id", vault_id))

\* Vault.delete(self, vault_id)
Vault_delete(vault_id) ==
    IF ~Truthy(vault_id) THEN Refused("Vault entry ID required.")
    ELSE Built("id" :> vault_id)

\* Vault.add_image without the branch for strings longer than 100 characters
Vault_add_image_no_passthrough(id, image, type) ==
    LET payload == "id" :> id @@ "type" :> type
    IN IF ~Truthy(id) THEN Refused("Vault entry ID required.")
       ELSE IF ~PyEq(type, PyInt(0)) /\ ~PyEq(type, PyInt(1))
       THEN Refused("Invalid image type, 0 or 1 accepted.")
       ELSE IF is_valid_url(image.s) THEN Built(Put(payload, "imageurl", image))
       ELSE IF isfile(image.s)
       THEN Built(Put(payload, "image", PyBytes(b64encode(ReadFile(image.s)))))
       ELSE Refused("Invalid image, file not found or malformed URL.")

\* Vault.add_image(self, id, image, type=0)
Vault_add_image(id, image, type) ==
    LET payload == "id" :> id @@ "type" :> type
    IN IF ~Truthy(id) THEN Refused("Vault entry ID required.")
       ELSE IF ~PyEq(type, PyInt(0)) /\ ~PyEq(type, PyInt(1))
       THEN Refused("Invalid image type, 0 or 1 accepted.")
       ELSE IF is_valid_url(image.s) THEN Built(Put(payload, "imageurl", image))
       ELSE IF isfile(image.s)
       THEN Built(Put(payload, "image", PyBytes(b64encode(ReadFile(image.s)))))
       ELSE IF Len(image.s) > 100 THEN Built(Put(payload, "image", image))
       ELSE Refused("Invalid image, file not found or malformed URL.")

\* Vault.delete_image(self, vault_id, image_id)
Vault_delete_image(vault_id, image_id) ==
    IF ~Truthy(vault_id) THEN Refused("Vault entry ID required.")
    ELSE IF ~Truthy(image_id) THEN Refused("Image ID required.")
    ELSE Built("id" :> vault_id @@ "imageid" :> image_id)

\* Vault.search_face testing the length of the image before the URL pattern
Vault_search_face_length_first(image, max_entry, threshold) ==
    LET payload == "maxentry" :> max_entry @@ "threshold" :> threshold
    IN IF Len(image.s) > 100 THEN Built(Put(payload, "image", image))
       ELSE IF is_valid_url(image.s) THEN Built(Put(payload, "imageurl", image))
       ELSE IF isfile(image.s)
       THEN Built(Put(payload, "image", PyBytes(b64encode(ReadFile(image.s)))))
       ELSE Refused("Invalid image, file not found or malformed URL.")

\* Vault.search_face(self, image, max_entry=10, threshold=0.5)
Vault_search_face(image, max_entry, threshold) ==
    LET payload == "maxentry" :> max_entry @@ "threshold" :> threshold
    IN IF is_valid_url(image.s) THEN Built(Put(payload, "imageurl", image))
       ELSE IF isfile(image.s)
       THEN Built(Put(payload, "image", PyBytes(b64encode(ReadFile(image.s)))))
       ELSE IF Len(image.s) > 100 THEN Built(Put(payload, "image", image))
       ELSE Refused("Invalid image, file not found or malformed URL.")

\* Vault.train_face(self): __api("train") with no payload
Vault_train_face == Built(EmptyDict)

\* Vault.training_status(self): __api("trainstatus") with no payload
Vault_training_status == Built(EmptyDict)

\* Vault.__api(self, action, payload=None), lines 1357-1362: the request
Vault_api_request(self, action, payload) ==
    LET p0 == IF DOMAIN payload = {} THEN EmptyDict ELSE payload
        p1 == Put(p0, "apikey", PyStr(apikey[self]))
    IN [url |-> apiendpoint[self] \o "vault/" \o action,
        data |-> Put(p1, "client", PyStr(client_library))]

\* Vault.__api without its strict-mode branch: the response returned whatever the mode
Vault_api_end_always_returns(throw, net) ==
    IF net.failed THEN Raises("ConnectionError", PyNone)
    ELSE IF raises_for_status(net.status_code) THEN Raises("HTTPError", PyInt(net.status_code))
    ELSE Returns(PyDict(net.json))

\* Vault.__api, lines 1362-1372: how the call ends once the POST met net
Vault_api_end(throw, net) ==
    IF net.failed THEN Raises("ConnectionError", PyNone)
    ELSE IF raises_for_status(net.status_code) THEN Raises("HTTPError", PyInt(net.status_code))
    ELSE IF ~throw THEN Returns(PyDict(net.json))
    ELSE IF Truthy(Get(net.json, "error")) THEN Raises("APIError", net.json["error"])
    ELSE Returns(PyDict(net.json))

(***************************************************************************)
(* AMLAPI                                                                  *)
(***************************************************************************)
\* AMLAPI.throw_api_exception(self, throw_exception=False)
AMLAPI_throw_api_exception(throw_exception) == IsTrue(throw_exception)

\* AMLAPI.set_aml_database(self, databases=...): the new self.AMLDatabases
AMLAPI_set_aml_database(databases) == databases

\* AMLAPI.set_entity_type(self, entity_type=""): whether it raises ValueError
AMLAPI_set_entity_type_raises(entity_type) ==
    /\ ~PyEq(entity_type, PyStr("person"))
    /\ ~PyEq(entity_type, PyStr("legalentity"))
    /\ ~PyEq(entity_type, PyStr(""))

\* AMLAPI.search_by_name(self, name="", country="", dob="")
AMLAPI_search_by_name(name, country, dob) ==
    IF Len(name.s) < 3 THEN Refused("Name should contain at least 3 characters.")
    ELSE Built(Put(Put(Put(EmptyDict, "name", name), "country", country), "dob", dob))

\* AMLAPI.search_by_id_number(self, document_number="", country="", dob="")
AMLAPI_search_by_id_number(document_number, country, dob) ==
    IF Len(document_number.s) < 5
    THEN Refused("Document number should contain at least 5 characters.")
    ELSE Built(Put(Put(Put(EmptyDict, "documentnumber", document_number), "country", country),
                   "dob", dob))

\* AMLAPI.__api sending an empty entity type whatever set_entity_type stored
AMLAPI_api_request_no_entity(self, payload) ==
    LET p0 == IF DOMAIN payload = {} THEN EmptyDict ELSE payload
        p1 == Put(p0, "database", AMLDatabases[self])
        p2 == Put(p1, "entity", PyStr(""))
        p3 == Put(p2, "apikey", PyStr(apikey[self]))
    IN [url |-> apiendpoint[self], data |-> Put(p3, "client", PyStr(client_library))]

\* AMLAPI.__api(self, payload=None), lines 1465-1471: the request
AMLAPI_api_request(self, payload) ==
    LET p0 == IF DOMAIN payload = {} THEN EmptyDict ELSE payload
        p1 == Put(p0, "database", AMLDatabases[self])
        p2 == Put(p1, "entity", AMLEntityType[self])
        p3 == Put(p2, "apikey", PyStr(apikey[self]))
    IN [url |-> apiendpoint[self], data |-> Put(p3, "client", PyStr(client_library))]

\* AMLAPI.__api without its silent-mode return: an error field raises whatever the mode
AMLAPI_api_end_always_raises(throw, net) ==
    IF net.failed THEN Raises("ConnectionError", PyNone)
    ELSE IF raises_for_status(net.status_code) THEN Raises("HTTPError", PyInt(net.status_code))
    ELSE IF Truthy(Get(net.json, "error")) THEN Raises("APIError", net.json["error"])
    ELSE Returns(PyDict(net.json))

\* AMLAPI.__api, lines 1471-1481: how the call ends once the POST met net
AMLAPI_api_end(throw, net) ==
    IF net.failed THEN Raises("ConnectionError", PyNone)
    ELSE IF raises_for_status(net.status_code) THEN Raises("HTTPError", PyInt(net.status_code))
    ELSE IF ~throw THEN Returns(PyDict(net.json))
    ELSE IF Truthy(Get(net.json, "error")) THEN Raises("APIError", net.json["error"])
    ELSE Returns(PyDict(net.json))

(***************************************************************************)
(* The calls of the client program, and the arguments it passes            *)
(***************************************************************************)
\* An inline payload of more than 100 characters.
LongBase64 ==
    "iVBORw0KGgoAAAANSUhEUgAAAAEAAAABCAYAAAAfFcSJAAAADUlEQVR42mNkYPhfDwAChwGA60e6kgAAAABJRU5ErkJggg==iVBORw0KGgo"

UrlFront == PyStr("https://www.example.com/id_front.jpg")

UrlBack == PyStr("https://www.example.com/id_back.jpg")

UrlVideo == PyStr("https://www.example.com/face_video.mp4")

\* The keyword arguments of the scan calls.
ScanOptions ==
    { EmptyDict,
      "document_primary" :> UrlFront,
      "document_primary" :> PyStr("sampleid.jpg"),
      "document_primary" :> PyStr("abc"),
      "document_primary" :> PyStr(LongBase64),
      "document_primary" :> PyStr("sampleid.jpg") @@ "document_secondary" :> UrlBack,
      "document_primary" :> UrlFront @@ "biometric_photo" :> PyStr("sampleface.png"),
      "document_primary" :> PyStr("sampleid.jpg") @@ "biometric_video" :> PyStr("face_video.mp4")
          @@ "biometric_video_passcode" :> PyStr("1234"),
      "document_primary" :> PyStr("sampleid.jpg") @@ "biometric_video" :> UrlVideo
          @@ "biometric_video_passcode" :> PyStr("12") }

ThrowArgs == {PyBool(TRUE), PyBool(FALSE), PyInt(1)}

TemplateIds == {PyStr(""), PyStr("TEMPLATE1")}

\* A call that only assigns attributes of self: throw_api_exception, reset_config.
Assigns(op, self, args) ==
    /\ call' = CallRecord(op, self, args, Done(heap), Returns(PyNone), <<>>)
    /\ UNCHANGED <<heap, cls, apikey, apiendpoint, AMLDatabases, AMLEntityType, threadvars, setter_calls, image_calls>>

Call_CoreAPI_throw_api_exception ==
    \E self \in Inst, v \in ThrowArgs :
      /\ cls = "CoreAPI"
      /\ throw_error' = [throw_error EXCEPT ![self] = CoreAPI_throw_api_exception(v)]
      /\ Assigns("CoreAPI.throw_api_exception", self, "throw_exception" :> v)
      /\ UNCHANGED config

Call_CoreAPI_reset_config ==
    \E self \in Inst :
      /\ cls = "CoreAPI"
      /\ config' = [config EXCEPT ![self] = CoreAPI_reset_config(self)]
      /\ Assigns("CoreAPI.reset_config", self, EmptyDict)
      /\ UNCHANGED throw_error

Call_CoreAPI_set_accuracy ==
    \E self \in Inst, accuracy \in {PyInt(0)} :
      /\ cls = "CoreAPI"
      /\ Setter("CoreAPI.set_accuracy", self, "accuracy" :> accuracy,
                CoreAPI_set_accuracy(heap, self, accuracy))

Call_CoreAPI_enable_authentication ==
    \E self \in Inst, enabled \in {PyBool(TRUE), PyBool(FALSE)},
       module \in {PyStr("quick"), PyInt(3)} :
      /\ cls = "CoreAPI"
      /\ Validating("CoreAPI.enable_authentication", self, "enabled" :> enabled @@ "module" :> module,
                CoreAPI_enable_authentication(heap, self, enabled, module))

Call_CoreAPI_set_ocr_image_resize ==
    \E self \in Inst, max_scale \in {PyInt(0), PyInt(499), PyInt(4001)} :
      /\ cls = "CoreAPI"
      /\ Validating("CoreAPI.set_ocr_image_resize", self, "max_scale" :> max_scale,
                CoreAPI_set_ocr_image_resize(heap, self, max_scale))

Call_CoreAPI_set_biometric_threshold ==
    \E self \in Inst, threshold \in {PyFloat(6), PyInt(0), PyFloat(11)} :
      /\ cls = "CoreAPI"
      /\ Validating("CoreAPI.set_biometric_threshold", self, "threshold" :> threshold,
                CoreAPI_set_biometric_threshold(heap, self, threshold))

Call_CoreAPI_enable_image_output ==
    \E self \in Inst, crop_document \in {PyBool(TRUE)}, crop_face \in {PyBool(FALSE)},
       output_format \in {PyStr("base64"), PyStr("json")} :
      /\ cls = "CoreAPI"
      /\ Validating("CoreAPI.enable_image_output", self,
                "crop_document" :> crop_document @@ "crop_face" :> crop_face
                    @@ "output_format" :> output_format,
                CoreAPI_enable_image_output(heap, self, crop_document, crop_face, output_format))

\* The dates of birth and the age ranges the program passes to verify_dob and
\* verify_age.
Dobs == {PyStr("1990/01/01"), PyStr("1990-01-01"), PyStr("1990/01/01\n"), PyStr("")}

AgeRanges == {PyStr("18-99"), PyStr("18+"), PyStr("18-99\n"), PyStr("")}

Call_CoreAPI_verify_dob ==
    \E self \in Inst, dob \in Dobs :
      /\ cls = "CoreAPI"
      /\ Validating("CoreAPI.verify_dob", self, "dob" :> dob, CoreAPI_verify_dob(heap, self, dob))

Call_CoreAPI_verify_age ==
    \E self \in Inst, age_range \in AgeRanges :
      /\ cls = "CoreAPI"
      /\ Validating("CoreAPI.verify_age", self, "age_range" :> age_range,
                CoreAPI_verify_age(heap, self, age_range))

Call_CoreAPI_generate_contract ==
    \E self \in Inst, template_id \in TemplateIds :
      /\ cls = "CoreAPI"
      /\ Validating("CoreAPI.generate_contract", self, "template_id" :> template_id,
                CoreAPI_generate_contract(heap, self, template_id, PyStr("PDF"), PyNone))

Call_CoreAPI_set_parameter ==
    \E self \in Inst, parameter_key \in {"customparam"}, parameter_value \in {PyStr("x")} :
      /\ cls = "CoreAPI"
      /\ Setter("CoreAPI.set_parameter", self,
                "parameter_key" :> PyStr(parameter_key) @@ "parameter_value" :> parameter_value,
                CoreAPI_set_parameter(heap, self, parameter_key, parameter_value))

Call_CoreAPI_scan ==
    \E self \in Inst, options \in ScanOptions :
      /\ cls = "CoreAPI"
      /\ \E r \in {CoreAPI_scan(heap, self, options)} :
         \E req \in {CoreAPI_scan_request(r.heap, self, CoreAPI_scan_payload(self))} :
         \E net \in NetOutcomes :
           Action("CoreAPI.scan", self, options, r, req, net,
                  CoreAPI_scan_end(throw_error[self], net))

Call_DocuPass_throw_api_exception ==
    \E self \in Inst, v \in ThrowArgs :
      /\ cls = "DocuPass"
      /\ throw_error' = [throw_error EXCEPT ![self] = DocuPass_throw_api_exception(v)]
      /\ Assigns("DocuPass.throw_api_exception", self, "throw_exception" :> v)
      /\ UNCHANGED config

Call_DocuPass_reset_config ==
    \E self \in Inst :
      /\ cls = "DocuPass"
      /\ config' = [config EXCEPT ![self] = DocuPass_reset_config(self)]
      /\ Assigns("DocuPass.reset_config", self, EmptyDict)
      /\ UNCHANGED throw_error

Call_DocuPass_set_max_attempt ==
    \E self \in Inst, max_attempt \in {PyInt(3), PyInt(0), PyInt(10), PyInt(11)} :
      /\ cls = "DocuPass"
      /\ Validating("DocuPass.set_max_attempt", self, "max_attempt" :> max_attempt,
                DocuPass_set_max_attempt(heap, self, max_attempt))

Call_DocuPass_set_custom_id ==
    \E self \in Inst, custom_id \in {PyStr("CUSTOMER1")} :
      /\ cls = "DocuPass"
      /\ Setter("DocuPass.set_custom_id", self, "custom_id" :> custom_id,
                DocuPass_set_custom_id(heap, self, custom_id))

Call_DocuPass_set_callback_url ==
    \E self \in Inst, url \in {PyStr("https://www.example.com/docupass_callback.php"),
                               PyStr("localhost/callback")} :
      /\ cls = "DocuPass"
      /\ Validating("DocuPass.set_callback_url", self, "url" :> url,
                DocuPass_set_callback_url(heap, self, url))

Call_DocuPass_set_redirection_url ==
    \E self \in Inst,
       success_url \in {PyStr("https://www.example.com/success.php"), PyStr("success.php")},
       fail_url \in {PyStr("https://www.example.com/failed.php"), PyStr("failed.php")} :
      /\ cls = "DocuPass"
      /\ Validating("DocuPass.set_redirection_url", self,
                "success_url" :> success_url @@ "fail_url" :> fail_url,
                DocuPass_set_redirection_url(heap, self, success_url, fail_url))

Call_DocuPass_enable_authentication ==
    \E self \in Inst, enabled \in {PyBool(TRUE), PyBool(FALSE)},
       module \in {PyStr("quick"), PyInt(3)}, minimum_score \in {PyFloat(3), PyFloat(12)} :
      /\ cls = "DocuPass"
      /\ Validating("DocuPass.enable_authentication", self,
                "enabled" :> enabled @@ "module" :> module @@ "minimum_score" :> minimum_score,
                DocuPass_enable_authentication(heap, self, enabled, module, minimum_score))

Call_DocuPass_enable_face_verification ==
    \E self \in Inst, enabled \in {PyBool(TRUE), PyBool(FALSE)},
       verification_type \in {PyInt(2), PyInt(3)}, threshold \in {PyFloat(5), PyFloat(15)} :
      /\ cls = "DocuPass"
      /\ Validating("DocuPass.enable_face_verification", self,
                "enabled" :> enabled @@ "verification_type" :> verification_type
                    @@ "threshold" :> threshold,
                DocuPass_enable_face_verification(heap, self, enabled, verification_type,
                                                  threshold))

Call_DocuPass_set_qrcode_format ==
    \E self \in Inst, foreground_color \in {PyStr("#000000"), PyStr("000000")},
       background_color \in {PyStr("#FFFFFF"), PyStr("FFFFFF"), PyStr("white")},
       size \in {PyInt(5), PyInt(50), PyInt(51)}, margin \in {PyInt(1), PyInt(50), PyInt(51)} :
      /\ cls = "DocuPass"
      /\ Validating("DocuPass.set_qrcode_format", self,
                "foreground_color" :> foreground_color @@ "background_color" :> background_color
                    @@ "size" :> size @@ "margin" :> margin,
                DocuPass_set_qrcode_format(heap, self, foreground_color, background_color,
                                           size, margin))

Call_DocuPass_verify_dob ==
    \E self \in Inst, dob \in Dobs :
      /\ cls = "DocuPass"
      /\ Validating("DocuPass.verify_dob", self, "dob" :> dob, DocuPass_verify_dob(heap, self, dob))

Call_DocuPass_verify_age ==
    \E self \in Inst, age_range \in AgeRanges :
      /\ cls = "DocuPass"
      /\ Validating("DocuPass.verify_age", self, "age_range" :> age_range,
                DocuPass_verify_age(heap, self, age_range))

Call_DocuPass_set_parameter ==
    \E self \in Inst, parameter_key \in {"customparam"}, parameter_value \in {PyStr("x")} :
      /\ cls = "DocuPass"
      /\ Setter("DocuPass.set_parameter", self,
                "parameter_key" :> PyStr(parameter_key) @@ "parameter_value" :> parameter_value,
                DocuPass_set_parameter(heap, self, parameter_key, parameter_value))

Call_DocuPass_generate_contract ==
    \E self \in Inst, template_id \in TemplateIds :
      /\ cls = "DocuPass"
      /\ Validating("DocuPass.generate_contract", self, "template_id" :> template_id,
                DocuPass_generate_contract(heap, self, template_id, PyStr("PDF"), PyNone))

Call_DocuPass_sign_contract ==
    \E self \in Inst, template_id \in TemplateIds :
      /\ cls = "DocuPass"
      /\ Validating("DocuPass.sign_contract", self, "template_id" :> template_id,
                DocuPass_sign_contract(heap, self, template_id, PyStr("PDF"), PyNone))

Call_DocuPass_create_signature ==
    \E self \in Inst, template_id \in TemplateIds, net \in NetOutcomes :
      /\ cls = "DocuPass"
      /\ LET r == DocuPass_create_signature(heap, self, template_id, PyStr("DOCX"), PyNone)
         IN Action("DocuPass.create_signature", self,
                   "template_id" :> template_id @@ "out_format" :> PyStr("DOCX"), r,
                   DocuPass_create_signature_request(r.heap, self), net,
                   DocuPass_create_signature_end(throw_error[self], net))

\* self.__create(docupass_module), called by the four create_* methods
Call_DocuPass_create(op, self, docupass_module, net) ==
    /\ cls = "DocuPass"
    /\ LET r == DocuPass_create(heap, self, docupass_module)
       IN Action(op, self, EmptyDict, r, DocuPass_create_request(r.heap, self), net,
                 DocuPass_create_end(throw_error[self], net))

Call_DocuPass_create_iframe ==
    \E self \in Inst, net \in NetOutcomes :
      Call_DocuPass_create("DocuPass.create_iframe", self, DocuPass_create_iframe, net)

Call_DocuPass_create_mobile ==
    \E self \in Inst, net \in NetOutcomes :
      Call_DocuPass_create("DocuPass.create_mobile", self, DocuPass_create_mobile, net)

Call_DocuPass_create_redirection ==
    \E self \in Inst, net \in NetOutcomes :
      Call_DocuPass_create("DocuPass.create_redirection", self, DocuPass_create_redirection, net)

Call_DocuPass_create_live_mobile ==
    \E self \in Inst, net \in NetOutcomes :
      Call_DocuPass_create("DocuPass.create_live_mobile", self, DocuPass_create_live_mobile, net)

Call_DocuPass_validate ==
    \E self \in Inst, reference \in {PyStr("REF1")}, hash \in {PyStr("HASH1")},
       net \in NetOutcomes :
      /\ cls = "DocuPass"
      /\ Action("DocuPass.validate", self,
                "reference" :> reference @@ "hash" :> hash, Done(heap),
                DocuPass_validate_request(self, reference, hash), net,
                DocuPass_validate_end(throw_error[self], net))

VaultIds == {PyStr("VAULT1"), PyStr("")}

Filter(n) == PyList([i \in 1..n |-> PyStr("docupass_customid=CUSTOMER1")])

ListOptions ==
    { EmptyDict,
      "filter" :> Filter(1) @@ "orderby" :> PyStr("firstName") @@ "sort" :> PyStr("ASC")
          @@ "limit" :> PyInt(5) @@ "offset" :> PyInt(5),
      "filter" :> Filter(6),
      "filter" :> Filter(5),
      "filter" :> PyStr("docupass_customid=CUSTOMER1"),
      "limit" :> PyInt(0) @@ "offset" :> PyInt(0) }

UpdateData == {PyDict("firstName" :> PyStr("Tim")), PyDict(EmptyDict), PyNone}

Images == {UrlFront, PyStr("sampleface.png"), PyStr("abc")}

Call_Vault_throw_api_exception ==
    \E self \in Inst, v \in ThrowArgs :
      /\ cls = "Vault"
      /\ throw_error' = [throw_error EXCEPT ![self] = Vault_throw_api_exception(v)]
      /\ Assigns("Vault.throw_api_exception", self, "throw_exception" :> v)
      /\ UNCHANGED config

\* self.__api(action, payload), called by the Vault methods
Call_Vault_api(op, self, args, r, action, net) ==
    /\ cls = "Vault"
    /\ Remote(op, self, args, r, Vault_api_request(self, action, r.payload), net,
              Vault_api_end(throw_error[self], net))

Call_Vault_get ==
    \E self \in Inst, vault_id \in VaultIds, net \in NetOutcomes :
      Call_Vault_api("Vault.get", self, "vault_id" :> vault_id, Vault_get(vault_id), "get", net)

Call_Vault_list ==
    \E self \in Inst, options \in ListOptions, net \in NetOutcomes :
      Call_Vault_api("Vault.list", self, options, Vault_list(options), "list", net)

\* Vault.update, line 1241, and Vault.__api, lines 1357-1361: the caller's data
\* object once the call is over. data['id'] is assigned on the object itself,
\* and, being non-empty, the same object is the payload that __api writes
\* apikey and client into.
Vault_update_data(self, vault_id, data) ==
    LET r == Vault_update(vault_id, data)
    IN IF r.raised # "" THEN data
       ELSE PyDict(Vault_api_request(self, "update", r.payload).data)

\* data = {...}; vault.update(vault_id, data)
Call_Vault_update ==
    \E self \in Inst, vault_id \in VaultIds, data \in UpdateData, net \in NetOutcomes :
      /\ cls = "Vault"
      /\ \E r \in {Vault_update(vault_id, data)} :
           call' = CallRecord("Vault.update", self, "vault_id" :> vault_id @@ "data" :> data, r,
                              Vault_api_end(throw_error[self], net),
                              <<Exchange(Vault_api_request(self, "update", r.payload), net)>>)
      /\ heap' = IF data.ty = "dict"
                 THEN Put(heap, CallerData, Vault_update_data(self, vault_id, data).d)
                 ELSE Released(heap)
      /\ UNCHANGED <<objvars, throw_error, AMLDatabases, AMLEntityType, threadvars,
                     setter_calls, image_calls>>

Call_Vault_delete ==
    \E self \in Inst, vault_id \in VaultIds, net \in NetOutcomes :
      Call_Vault_api("Vault.delete", self, "vault_id" :> vault_id, Vault_delete(vault_id),
                     "delete", net)

Call_Vault_add_image ==
    \E self \in Inst, id \in VaultIds, image \in Images, type \in {PyInt(0), PyInt(2)},
       net \in NetOutcomes :
      Call_Vault_api("Vault.add_image", self, "id" :> id @@ "image" :> image @@ "type" :> type,
                     Vault_add_image(id, image, type), "addimage", net)

Call_Vault_delete_image ==
    \E self \in Inst, vault_id \in VaultIds, image_id \in {PyStr("IMAGE1"), PyStr("")},
       net \in NetOutcomes :
      Call_Vault_api("Vault.delete_image", self, "vault_id" :> vault_id @@ "image_id" :> image_id,
                     Vault_delete_image(vault_id, image_id), "deleteimage", net)

Call_Vault_search_face ==
    \E self \in Inst, image \in Images, net \in NetOutcomes :
      Call_Vault_api("Vault.search_face", self, "image" :> image,
                     Vault_search_face(image, PyInt(10), PyFloat(5)), "searchface", net)

Call_Vault_train_face ==
    \E self \in Inst, net \in NetOutcomes :
      Call_Vault_api("Vault.train_face", self, EmptyDict, Vault_train_face, "train", net)

Call_Vault_training_status ==
    \E self \in Inst, net \in NetOutcomes :
      Call_Vault_api("Vault.training_status", self, EmptyDict, Vault_training_status,
                     "trainstatus", net)

Call_AMLAPI_throw_api_exception ==
    \E self \in Inst, v \in ThrowArgs :
      /\ cls = "AMLAPI"
      /\ throw_error' = [throw_error EXCEPT ![self] = AMLAPI_throw_api_exception(v)]
      /\ Assigns("AMLAPI.throw_api_exception", self, "throw_exception" :> v)
      /\ UNCHANGED config

Call_AMLAPI_set_aml_database ==
    \E self \in Inst, databases \in {PyStr("un_sc,us_ofac"), PyStr("")} :
      /\ cls = "AMLAPI"
      /\ AMLDatabases' = [AMLDatabases EXCEPT ![self] = AMLAPI_set_aml_database(databases)]
      /\ call' = CallRecord("AMLAPI.set_aml_database", self, "databases" :> databases,
                            Done(heap), Returns(PyNone), <<>>)
      /\ UNCHANGED <<heap, objvars, throw_error, AMLEntityType, threadvars, setter_calls, image_calls>>

Call_AMLAPI_set_entity_type ==
    \E self \in Inst, entity_type \in {PyStr("person"), PyStr("company"), PyStr("")} :
      /\ cls = "AMLAPI"
      /\ AMLEntityType' = IF AMLAPI_set_entity_type_raises(entity_type) THEN AMLEntityType
                          ELSE [AMLEntityType EXCEPT ![self] = entity_type]
      /\ call' = CallRecord("AMLAPI.set_entity_type", self, "entity_type" :> entity_type,
                            IF AMLAPI_set_entity_type_raises(entity_type)
                            THEN Raise(heap, "ValueError",
                                       "Entity Type should be either empty, 'person' or 'legalentity'")
                            ELSE Done(heap),
                            Returns(PyNone), <<>>)
      /\ setter_calls < MaxSetterCalls
      /\ setter_calls' = setter_calls + 1
      /\ UNCHANGED <<heap, objvars, throw_error, AMLDatabases, threadvars, image_calls>>

\* self.__api(payload), called by the two searches
Call_AMLAPI_api(op, self, args, r, net) ==
    /\ cls = "AMLAPI"
    /\ Remote(op, self, args, r, AMLAPI_api_request(self, r.payload), net,
              AMLAPI_api_end(throw_error[self], net))

Call_AMLAPI_search_by_name ==
    \E self \in Inst, name \in {PyStr("Elon Musk"), PyStr("Jet"), PyStr("El")},
       country \in {PyStr("US")}, dob \in {PyStr("")}, net \in NetOutcomes :
      Call_AMLAPI_api("AMLAPI.search_by_name", self,
                      Put(Put(Put(EmptyDict, "name", name), "country", country), "dob", dob),
                      AMLAPI_search_by_name(name, country, dob), net)

Call_AMLAPI_search_by_id_number ==
    \E self \in Inst, document_number \in {PyStr("P12345678"), PyStr("P1234"), PyStr("P123")},
       country \in {PyStr("")}, dob \in {PyStr("1990-01-01")}, net \in NetOutcomes :
      Call_AMLAPI_api("AMLAPI.search_by_id_number", self,
                      Put(Put(Put(EmptyDict, "document_number", document_number),
                              "country", country), "dob", dob),
                      AMLAPI_search_by_id_number(document_number, country, dob), net)

(***************************************************************************)
(* Specifications                                                          *)
(***************************************************************************)
\* The program configures and uses two CoreAPI or two DocuPass instances, one
\* call after the other.
Init == \E c \in {"CoreAPI", "DocuPass"} : InitFor(c)

Next ==
    \/ Call_CoreAPI_set_accuracy
    \/ Call_CoreAPI_set_parameter
    \/ Call_CoreAPI_reset_config
    \/ Call_CoreAPI_scan
    \/ Call_DocuPass_set_custom_id
    \/ Call_DocuPass_set_parameter
    \/ Call_DocuPass_reset_config
    \/ Call_DocuPass_create_iframe
    \/ Call_DocuPass_create_mobile
    \/ Call_DocuPass_create_redirection
    \/ Call_DocuPass_create_live_mobile
    \/ Call_DocuPass_create_signature

Spec == Init /\ [][Next]_vars

\* The program calls the validating setters of two CoreAPI, two DocuPass or two
\* AMLAPI instances, with valid and invalid arguments.
InitSetters == \E c \in {"CoreAPI", "DocuPass", "AMLAPI"} : InitFor(c)

NextSetters ==
    \/ Call_CoreAPI_enable_authentication
    \/ Call_CoreAPI_set_ocr_image_resize
    \/ Call_CoreAPI_set_biometric_threshold
    \/ Call_CoreAPI_enable_image_output
    \/ Call_CoreAPI_verify_dob
    \/ Call_CoreAPI_verify_age
    \/ Call_CoreAPI_generate_contract
    \/ Call_DocuPass_set_max_attempt
    \/ Call_DocuPass_set_callback_url
    \/ Call_DocuPass_set_redirection_url
    \/ Call_DocuPass_enable_authentication
    \/ Call_DocuPass_enable_face_verification
    \/ Call_DocuPass_set_qrcode_format
    \/ Call_DocuPass_verify_dob
    \/ Call_DocuPass_verify_age
    \/ Call_DocuPass_generate_contract
    \/ Call_DocuPass_sign_contract
    \/ Call_AMLAPI_set_aml_database
    \/ Call_AMLAPI_set_entity_type

SpecSetters == InitSetters /\ [][NextSetters]_vars

\* The program switches two instances of any one class between silent and strict
\* mode and calls their actions; every POST meets any of the network's answers.
InitTransport == \E c \in Classes : InitFor(c)

NextTransport ==
    \/ Call_CoreAPI_throw_api_exception
    \/ Call_CoreAPI_scan
    \/ Call_DocuPass_throw_api_exception
    \/ Call_DocuPass_create_iframe
    \/ Call_DocuPass_create_mobile
    \/ Call_DocuPass_create_redirection
    \/ Call_DocuPass_create_live_mobile
    \/ Call_DocuPass_create_signature
    \/ Call_DocuPass_validate
    \/ Call_Vault_throw_api_exception
    \/ Call_Vault_get
    \/ Call_Vault_list
    \/ Call_Vault_update
    \/ Call_Vault_delete
    \/ Call_Vault_add_image
    \/ Call_Vault_delete_image
    \/ Call_Vault_search_face
    \/ Call_Vault_train_face
    \/ Call_Vault_training_status
    \/ Call_AMLAPI_throw_api_exception
    \/ Call_AMLAPI_search_by_name
    \/ Call_AMLAPI_search_by_id_number

SpecTransport == InitTransport /\ [][NextTransport]_vars

(***************************************************************************)
(* Two threads, one per CoreAPI instance: the statements of scan()         *)
(***************************************************************************)
\* The keyword arguments the two threads call scan with.
ThreadOptions ==
    { "document_primary" :> UrlFront,
      "document_primary" :> PyStr("sampleid.jpg") @@ "document_secondary" :> UrlBack,
      "document_primary" :> UrlFront @@ "biometric_photo" :> PyStr("sampleface.png"),
      "document_primary" :> PyStr("sampleid.jpg") @@ "biometric_video" :> UrlVideo
          @@ "biometric_video_passcode" :> PyStr("1234"),
      "document_primary" :> PyStr("abc") }

\* What the thread of instance self leaves alone.
ThreadFrame ==
    UNCHANGED <<objvars, throw_error, AMLDatabases, AMLEntityType, setter_calls, image_calls>>

\* One statement group of scan() run by the thread of instance self: its result
\* r moves the thread to the statement next, or ends the call with ValueError.
ThreadStep(self, r, next) ==
    \E done \in {r} :
      /\ heap' = done.heap
      /\ IF done.raised = ""
         THEN /\ pc' = [pc EXCEPT ![self] = next]
              /\ frame' = frame
              /\ call' = call
         ELSE /\ pc' = [pc EXCEPT ![self] = "done"]
              /\ frame' = [frame EXCEPT ![self].raised = done.raised]
              /\ call' = CallRecord("CoreAPI.scan", self, frame[self].options, done,
                                    Returns(PyNone), <<>>)
      /\ posted' = posted
      /\ ThreadFrame

\* scan(), lines 413-414
Thread_scan_apikey ==
    \E self \in Inst, options \in ThreadOptions :
      /\ cls = "CoreAPI"
      /\ pc[self] = "idle"
      /\ heap' = CoreAPI_scan_apikey(heap, self, CoreAPI_scan_payload(self)).heap
      /\ pc' = [pc EXCEPT ![self] = "document_primary"]
      /\ frame' = [frame EXCEPT ![self] = [options |-> options,
                                           payload |-> CoreAPI_scan_payload(self),
                                           raised |-> ""]]
      /\ UNCHANGED <<call, posted>>
      /\ ThreadFrame

\* scan(), lines 416-427
Thread_scan_document_primary ==
    \E self \in Inst :
      /\ pc[self] = "document_primary"
      /\ ThreadStep(self, CoreAPI_scan_document_primary(heap, frame[self].payload,
                                                        frame[self].options),
                    "document_secondary")

\* scan(), lines 429-438
Thread_scan_document_secondary ==
    \E self \in Inst :
      /\ pc[self] = "document_secondary"
      /\ ThreadStep(self, CoreAPI_scan_document_secondary(heap, frame[self].payload,
                                                          frame[self].options),
                    "biometric_photo")

\* scan(), lines 440-449
Thread_scan_biometric_photo ==
    \E self \in Inst :
      /\ pc[self] = "biometric_photo"
      /\ ThreadStep(self, CoreAPI_scan_biometric_photo(heap, frame[self].payload,
                                                       frame[self].options),
                    "biometric_video")

\* scan(), lines 451-466
Thread_scan_biometric_video ==
    \E self \in Inst :
      /\ pc[self] = "biometric_video"
      /\ ThreadStep(self, CoreAPI_scan_biometric_video(heap, frame[self].payload,
                                                       frame[self].options),
                    "post")

\* scan(), lines 468-478: the POST of the payload as it is now, and the end of the call
Thread_scan_post ==
    \E self \in Inst, net \in NetOutcomes :
      /\ pc[self] = "post"
      /\ \E req \in {CoreAPI_scan_request(heap, self, frame[self].payload)} :
           /\ posted' = [posted EXCEPT ![self] = req]
           /\ call' = CallRecord("CoreAPI.scan", self, frame[self].options, Done(heap),
                                 CoreAPI_scan_end(throw_error[self], net),
                                 <<Exchange(req, net)>>)
      /\ pc' = [pc EXCEPT ![self] = "done"]
      /\ UNCHANGED <<heap, frame>>
      /\ ThreadFrame

\* Each of the two threads calls scan() once on its own CoreAPI instance; the
\* statements of the two calls interleave.
InitThreads == InitFor("CoreAPI")

NextThreads ==
    \/ Thread_scan_apikey
    \/ Thread_scan_document_primary
    \/ Thread_scan_document_secondary
    \/ Thread_scan_biometric_photo
    \/ Thread_scan_biometric_video
    \/ Thread_scan_post

SpecThreads == InitThreads /\ [][NextThreads]_vars


(***************************************************************************)
(* Image arguments: the calls that classify an image, file or video        *)
(***************************************************************************)
\* The program makes at most MaxImageCalls calls with an image argument.
MaxImageCalls == 2

\* A URL of more than 100 characters.
LongUrl ==
    "https://www.example.com/images/2021/06/identity-documents/front/passport-scan-0001-very-long-name.jpg?size=large&v=2"

\* The image arguments: a URL, a URL of more than 100 characters, an existing
\* file, a string of more than 100 characters, a short string, the empty string.
ImageStrings == {UrlFront.s, LongUrl, "sampleface.png", LongBase64, "abc", ""}

\* The passcodes given with a video: four digits, none, too short, too long,
\* letters, and four digits followed by a newline.
Passcodes == {"1234", "", "123", "12345", "12a4", "1234\n"}

\* scan's keyword arguments: s as the primary document, or as one of the other
\* three image arguments next to a primary document; and a video with each
\* passcode, and with none.
ImageScanOptions ==
    {"document_primary" :> PyStr(s) : s \in ImageStrings}
    \cup {"document_primary" :> UrlFront @@ arg :> PyStr(s) :
            arg \in {"document_secondary", "biometric_photo"}, s \in ImageStrings}
    \cup {"document_primary" :> UrlFront @@ "biometric_video" :> PyStr(s)
            @@ "biometric_video_passcode" :> PyStr("1234") : s \in ImageStrings}
    \cup {"document_primary" :> UrlFront @@ "biometric_video" :> UrlVideo
            @@ "biometric_video_passcode" :> PyStr(passcode) : passcode \in Passcodes}
    \cup {"document_primary" :> UrlFront @@ "biometric_video" :> UrlVideo}

\* What the POST of these calls meets: no connection, or a result.
ImageNet == {Net(TRUE, 0, EmptyDict), Net(FALSE, 200, BodyResult)}

\* An action call of CoreAPI with an image argument.
ImageAction(op, self, args, r, req, net, end) ==
    /\ image_calls < MaxImageCalls
    /\ image_calls' = image_calls + 1
    /\ \E done \in {r} :
         /\ heap' = done.heap
         /\ call' = CallRecord(op, self, args, done, end, <<Exchange(req, net)>>)
    /\ UNCHANGED <<objvars, throw_error, AMLDatabases, AMLEntityType, threadvars, setter_calls>>

\* An action call of Vault with an image argument.
ImageRemote(op, self, args, r, req, net, end) ==
    /\ image_calls < MaxImageCalls
    /\ image_calls' = image_calls + 1
    /\ \E done \in {r} :
         call' = CallRecord(op, self, args, done, end, <<Exchange(req, net)>>)
    /\ UNCHANGED <<heap, objvars, throw_error, AMLDatabases, AMLEntityType, threadvars,
                   setter_calls>>

Image_CoreAPI_scan ==
    \E self \in Inst, options \in ImageScanOptions :
      /\ cls = "CoreAPI"
      /\ \E r \in {CoreAPI_scan(heap, self, options)} :
         \E req \in {CoreAPI_scan_request(r.heap, self, CoreAPI_scan_payload(self))} :
         \E net \in ImageNet :
           ImageAction("CoreAPI.scan", self, options, r, req, net,
                       CoreAPI_scan_end(throw_error[self], net))

Image_Vault_add_image ==
    \E self \in Inst, s \in ImageStrings, net \in ImageNet :
      /\ cls = "Vault"
      /\ \E r \in {Vault_add_image(PyStr("VAULT1"), PyStr(s), PyInt(0))} :
           ImageRemote("Vault.add_image", self,
                       "id" :> PyStr("VAULT1") @@ "image" :> PyStr(s) @@ "type" :> PyInt(0), r,
                       Vault_api_request(self, "addimage", r.payload), net,
                       Vault_api_end(throw_error[self], net))

Image_Vault_search_face ==
    \E self \in Inst, s \in ImageStrings, net \in ImageNet :
      /\ cls = "Vault"
      /\ \E r \in {Vault_search_face(PyStr(s), PyInt(10), PyFloat(5))} :
           ImageRemote("Vault.search_face", self, "image" :> PyStr(s), r,
                       Vault_api_request(self, "searchface", r.payload), net,
                       Vault_api_end(throw_error[self], net))

\* The program passes an image argument to scan of two CoreAPI instances, or to
\* add_image and search_face of two Vault instances.
InitImages == \E c \in {"CoreAPI", "Vault"} : InitFor(c)

NextImages ==
    \/ Image_CoreAPI_scan
    \/ Image_Vault_add_image
    \/ Image_Vault_search_face

SpecImages == InitImages /\ [][NextImages]_vars

(***************************************************************************)
(* Regions: the program constructs its clients again with other arguments  *)
(***************************************************************************)
\* The regions and API keys the program passes to the constructors.
Regions == {"US", "us", "uS", "EU", "eu", "Eu", "USA", "https://127.0.0.1/", ""}

Keys == {"key-A", "key-B", ""}

\* i = c(key, region): the constructor runs and, unless it raises, the
\* program's variable i is bound to the new object.
Call_init ==
    \E self \in Inst, key \in Keys, region \in Regions :
    \E n \in {New(cls, heap, key, "Company " \o self, region)} :
      /\ heap' = n.heap
      /\ call' = CallRecord(cls \o ".__init__", self,
                            "apikey" :> PyStr(key) @@ "region" :> PyStr(region),
                            n, Returns(PyNone), <<>>)
      /\ IF n.raised # ""
         THEN UNCHANGED <<config, apikey, throw_error, apiendpoint, AMLDatabases,
                          AMLEntityType>>
         ELSE /\ config' = [config EXCEPT ![self] = n.obj.config]
              /\ apikey' = [apikey EXCEPT ![self] = n.obj.apikey]
              /\ throw_error' = [throw_error EXCEPT ![self] = n.obj.throw_error]
              /\ apiendpoint' = [apiendpoint EXCEPT ![self] = n.obj.apiendpoint]
              /\ AMLDatabases' = [AMLDatabases EXCEPT ![self] = n.obj.AMLDatabases]
              /\ AMLEntityType' = [AMLEntityType EXCEPT ![self] = n.obj.AMLEntityType]
      /\ UNCHANGED <<cls, threadvars, setter_calls, image_calls>>

\* scan(document_primary=url) on a client of any region; the POST fails to
\* connect or is answered with a result.
Region_CoreAPI_scan ==
    \E self \in Inst, options \in {"document_primary" :> UrlFront} :
      /\ cls = "CoreAPI"
      /\ \E r \in {CoreAPI_scan(heap, self, options)} :
         \E req \in {CoreAPI_scan_request(r.heap, self, CoreAPI_scan_payload(self))} :
         \E net \in ImageNet :
           Action("CoreAPI.scan", self, options, r, req, net,
                  CoreAPI_scan_end(throw_error[self], net))

\* The program constructs clients of one class for several regions and keys
\* and calls one action of the class on them.
InitRegions == \E c \in Classes : InitFor(c)

NextRegions ==
    \/ Call_init
    \/ Region_CoreAPI_scan
    \/ Call_DocuPass_create_iframe
    \/ Call_Vault_get
    \/ Call_AMLAPI_search_by_name

SpecRegions == InitRegions /\ [][NextRegions]_vars

(***************************************************************************)
(* AML searches: the setters of AMLAPI together with its two searches      *)
(***************************************************************************)
InitAML == InitFor("AMLAPI")

NextAML ==
    \/ Call_AMLAPI_throw_api_exception
    \/ Call_AMLAPI_set_aml_database
    \/ Call_AMLAPI_set_entity_type
    \/ Call_AMLAPI_search_by_name
    \/ Call_AMLAPI_search_by_id_number

SpecAML == InitAML /\ [][NextAML]_vars

(***************************************************************************)
(* Properties                                                              *)
(***************************************************************************)
\* The configuration map of instance i in the next state.
CfgNext(i) == heap'[config'[i]]

\* The other instance.
Other(i) == CHOOSE j \in Inst : j # i

\* C1: a call on one instance leaves the configuration map of the other
\* instance of the same class unchanged.
C1_InstancesIsolated ==
    [][call'.self \in Inst => CfgNext(Other(call'.self)) = Cfg(Other(call'.self))]_vars

\* C2: reset_config leaves the instance's configuration map equal to the literal
\* DEFAULT_CONFIG table of its class and keeps the API key and the endpoint.
C2_ResetRestoresDefaults ==
    [][/\ call'.op = "CoreAPI.reset_config" => CfgNext(call'.self) = CoreAPI_DEFAULT_CONFIG
       /\ call'.op = "DocuPass.reset_config" => CfgNext(call'.self) = DocuPass_DEFAULT_CONFIG
       /\ call'.op \in {"CoreAPI.reset_config", "DocuPass.reset_config"}
            => apikey' = apikey /\ apiendpoint' = apiendpoint]_vars

\* The actions that build a request payload from the configuration map.
PayloadActions ==
    {"CoreAPI.scan", "DocuPass.create_iframe", "DocuPass.create_mobile",
     "DocuPass.create_redirection", "DocuPass.create_live_mobile", "DocuPass.create_signature"}

\* C3: whether scan, create_* or create_signature returns or raises, the
\* instance's configuration map after the call equals the map before the call.
C3_ActionsLeaveConfig ==
    [][call'.op \in PayloadActions => CfgNext(call'.self) = Cfg(call'.self)]_vars

\* The request fields that carry the image named by a scan argument.
ImageFields ==
    [document_primary |-> <<"url", "file_base64">>,
     document_secondary |-> <<"url_back", "file_back_base64">>,
     biometric_photo |-> <<"faceurl", "face_base64">>,
     biometric_video |-> <<"videourl", "video_base64">>]

\* The request data carries fields of the image argument arg only if arg was
\* given in args, and then exactly one of the two.
OwnImage(data, args, arg) ==
    LET url == ImageFields[arg][1]
        file == ImageFields[arg][2]
    IN IF Truthy(Get(args, arg))
       THEN (url \in DOMAIN data) # (file \in DOMAIN data)
       ELSE url \notin DOMAIN data /\ file \notin DOMAIN data

\* C4: the request a scan sends carries exactly one of url / file_base64, and
\* the other image fields and the passcode only if the argument was given in
\* that same call.
C4_ScanSendsOwnImages ==
    (call.op = "CoreAPI.scan" /\ call.sent # <<>>) =>
        LET data == call.sent[1].request.data
        IN /\ \A arg \in DOMAIN ImageFields : OwnImage(data, call.args, arg)
           /\ "passcode" \in DOMAIN data => Truthy(Get(call.args, "biometric_video_passcode"))


\* C5: whatever the interleaving of the two threads' scan calls, the request
\* each thread posts carries the API key of its own instance and the image
\* fields and passcode of its own arguments only.
C5_ThreadsSendOwnKeyAndFields ==
    \A i \in Inst :
        posted[i] # NoRequest =>
            /\ Get(posted[i].data, "apikey") = PyStr(apikey[i])
            /\ \A arg \in DOMAIN ImageFields : OwnImage(posted[i].data, frame[i].options, arg)
            /\ "passcode" \in DOMAIN posted[i].data
                 => Truthy(Get(frame[i].options, "biometric_video_passcode"))

\* C6: a validating setter call that raises ValueError leaves every key of the
\* configuration as it was before the call.
C6_RejectedSetterChangesNothing ==
    [][call'.outcome = "ValueError" =>
          /\ heap' = heap
          /\ AMLDatabases' = AMLDatabases
          /\ AMLEntityType' = AMLEntityType]_vars


\* The actions that end with the transport tail shared by the four classes.
TailActions ==
    {"CoreAPI.scan", "DocuPass.create_iframe", "DocuPass.create_mobile",
     "DocuPass.create_redirection", "DocuPass.create_live_mobile", "DocuPass.create_signature",
     "Vault.get", "Vault.list", "Vault.update", "Vault.delete", "Vault.add_image",
     "Vault.delete_image", "Vault.search_face", "Vault.train_face", "Vault.training_status",
     "AMLAPI.search_by_name", "AMLAPI.search_by_id_number"}

\* Every action that posts a request.
Actions == TailActions \cup {"DocuPass.validate"}

ThrowActions ==
    {"CoreAPI.throw_api_exception", "DocuPass.throw_api_exception",
     "Vault.throw_api_exception", "AMLAPI.throw_api_exception"}

\* The most recent call posted a request, and this is what the POST met.
Posted == call.sent # <<>>

Response == call.sent[1].response

\* The POST got a response with a success (2xx) status.
Succeeded == ~Response.failed /\ Response.status_code \in 200..299

\* C7: in strict mode (after throw_api_exception(True)) an action through the
\* shared transport tail raises APIError carrying the response's error
\* structure when the decoded response has a non-empty error field, and
\* returns the decoded response unchanged otherwise.
C7_StrictModeRaisesAPIError ==
    /\ (call.op \in ThrowActions /\ call.args["throw_exception"] = PyBool(TRUE))
         => throw_error[call.self]
    /\ (call.op \in TailActions /\ Posted /\ Succeeded /\ throw_error[call.self])
         => IF Truthy(Get(Response.json, "error"))
            THEN call.outcome = "APIError" /\ call.exc = Response.json["error"]
            ELSE call.outcome = "return" /\ call.ret = PyDict(Response.json)

\* C7: a strict-mode action met a response with an error structure and raised
\* APIError carrying its code and message.
C7_Witness ==
    /\ call.op = "Vault.get" /\ Posted /\ Succeeded /\ throw_error[call.self]
    /\ Response.json = BodyError
    /\ call.outcome = "APIError"
    /\ call.exc = PyDict("code" :> PyInt(5) @@ "message" :> PyStr("bad"))

\* C8: a new instance is in silent mode, and in silent mode an action returns
\* the decoded response mapping verbatim and never raises APIError, whether
\* or not the mapping has an error field.
C8_SilentModeReturnsVerbatim ==
    /\ call = NoCall => \A i \in Inst : throw_error[i] = FALSE
    /\ (call.op \in TailActions /\ Posted /\ ~throw_error[call.self])
         => /\ call.outcome # "APIError"
            /\ Succeeded => call.outcome = "return" /\ call.ret = PyDict(Response.json)

\* C8: a silent-mode search met a response with an error structure and
\* returned it.
C8_Witness ==
    /\ call.op = "AMLAPI.search_by_name" /\ Posted /\ Succeeded /\ ~throw_error[call.self]
    /\ Response.json = BodyError
    /\ call.outcome = "return"
    /\ call.ret = PyDict(BodyError)

\* C9, as stated: validate follows the two modes, raising APIError with the
\* error structure in strict mode and returning the decoded response mapping
\* in silent mode.
C9_ValidateFollowsModes ==
    (call.op = "DocuPass.validate" /\ Posted /\ Succeeded) =>
        IF throw_error[call.self]
        THEN Truthy(Get(Response.json, "error"))
               => call.outcome = "APIError" /\ call.exc = Response.json["error"]
        ELSE call.outcome = "return" /\ call.ret = PyDict(Response.json)

\* C9, amended: in both modes validate returns the success field of the decoded
\* response (None when the response has none) and never raises APIError.
C9_ValidateReturnsSuccessField ==
    (call.op = "DocuPass.validate" /\ Posted) =>
        /\ call.outcome # "APIError"
        /\ Succeeded => call.outcome = "return" /\ call.ret = Get(Response.json, "success")

\* C9: a strict-mode validate met a response with an error structure and no
\* success field, and returned None.
C9_Witness ==
    /\ call.op = "DocuPass.validate" /\ Posted /\ Succeeded /\ throw_error[call.self]
    /\ Response.json = BodyDenied
    /\ call.outcome = "return"
    /\ call.ret = PyNone

C11_RejectedActionSendsNothing ==
    (call.op \in Actions /\ call.outcome = "ValueError") => call.sent = <<>>

\* C11: Vault.update was given data that is not a dict, raised ValueError and
\* sent nothing.
C11_Witness ==
    /\ call.op = "Vault.update" /\ call.args["data"] = PyNone
    /\ Truthy(call.args["vault_id"])
    /\ call.outcome = "ValueError"
    /\ call.exc = PyStr("Data needs to be a dictionary.")
    /\ call.sent = <<>>

\* C12: an action whose arguments pass validation sends exactly one POST, in
\* either mode, also when the POST fails at HTTP level or the response carries
\* an API error.
C12_OnePostPerCall ==
    (call.op \in Actions /\ call.outcome # "ValueError") => Len(call.sent) = 1

\* C12: a strict-mode Vault action got status 500 and had sent one request.
C12_Witness ==
    /\ call.op = "Vault.delete" /\ throw_error[call.self]
    /\ Len(call.sent) = 1
    /\ Response.status_code = 500
    /\ call.outcome = "HTTPError"


\* The classes of an image argument, in the order of the classification.
Classified(s) ==
    IF is_valid_url(s) THEN "url"
    ELSE IF isfile(s) THEN "file"
    ELSE IF Len(s) > 100 THEN "passthrough"
    ELSE "error"

\* The value sent for an image argument s of class c.
SentAs(c, s) == IF c = "file" THEN PyBytes(b64encode(ReadFile(s))) ELSE PyStr(s)

\* The argument s was routed into the fields url and file of data: to url
\* unchanged when it is a URL, else to file (encoded when it names a file),
\* the other field left as it was in the dict before.
Routed(s, data, before, url, file) ==
    IF Classified(s) = "url"
    THEN Get(data, url) = PyStr(s) /\ Get(data, file) = Get(before, file)
    ELSE Get(data, file) = SentAs(Classified(s), s) /\ Get(data, url) = Get(before, url)

\* The image arguments of a scan call: the primary document and the given ones.
GivenImages(args) ==
    {"document_primary"} \cup {arg \in DOMAIN ImageFields : Truthy(Get(args, arg))}

\* C13, scan: when one of the image arguments is neither a URL, nor a file, nor
\* longer than 100 characters the call raises ValueError; otherwise each is
\* routed to its URL field or its file field in the request.
ScanClassifies(c, before) ==
    IF \E arg \in GivenImages(c.args) : Classified(Get(c.args, arg).s) = "error"
    THEN c.outcome = "ValueError" /\ c.sent = <<>>
    ELSE /\ c.outcome # "ValueError"
         /\ \A arg \in GivenImages(c.args) :
              Routed(c.args[arg].s, c.sent[1].request.data, before,
                     ImageFields[arg][1], ImageFields[arg][2])

\* C13, Vault.add_image and Vault.search_face: the same with the fields imageurl
\* and image of a payload that starts without them.
VaultClassifies(c) ==
    IF Classified(c.args["image"].s) = "error"
    THEN c.outcome = "ValueError" /\ c.sent = <<>>
    ELSE /\ c.outcome # "ValueError"
         /\ Routed(c.args["image"].s, c.sent[1].request.data, EmptyDict, "imageurl", "image")

\* C13: every image, file or video argument is classified as URL, then existing
\* file, then string longer than 100 characters, else ValueError, and the call
\* sets exactly one of the argument's URL field and file field (for a scan
\* whose video, if any, comes with a valid passcode).
C13_ImageClassification ==
    [][image_calls' # image_calls =>
          IF call'.op # "CoreAPI.scan" THEN VaultClassifies(call')
          ELSE (Truthy(Get(call'.args, "biometric_video"))
                  => Get(call'.args, "biometric_video_passcode") = PyStr("1234"))
                 => ScanClassifies(call', Cfg(call'.self))]_vars

\* C13: a scan sent a URL of more than 100 characters in videourl and left
\* video_base64 unset.
C13_WitnessLongUrl ==
    /\ call.op = "CoreAPI.scan" /\ image_calls > 0 /\ Posted
    /\ Get(call.args, "biometric_video") = PyStr(LongUrl)
    /\ Get(call.sent[1].request.data, "videourl") = PyStr(LongUrl)
    /\ "video_base64" \notin DOMAIN call.sent[1].request.data


\* The six entry points that take an image, file or video argument.
EntryPoints ==
    {"document_primary", "document_secondary", "biometric_photo", "biometric_video",
     "Vault.add_image", "Vault.search_face"}

\* What entry point e does with the string s, on a payload without image
\* fields: the statements of e applied to s.
Entered(e, s) ==
    LET h == "payload" :> EmptyDict
        scanned(r) == [raised |-> r.raised, payload |-> r.heap["payload"]]
    IN CASE e = "document_primary" ->
              scanned(CoreAPI_scan_document_primary(h, "payload", e :> PyStr(s)))
         [] e = "document_secondary" ->
              scanned(CoreAPI_scan_document_secondary(h, "payload", e :> PyStr(s)))
         [] e = "biometric_photo" ->
              scanned(CoreAPI_scan_biometric_photo(h, "payload", e :> PyStr(s)))
         [] e = "biometric_video" ->
              scanned(CoreAPI_scan_biometric_video(h, "payload",
                          e :> PyStr(s) @@ "biometric_video_passcode" :> PyStr("1234")))
         [] e = "Vault.add_image" ->
              Vault_add_image(PyStr("VAULT1"), PyStr(s), PyInt(0))
         [] e = "Vault.search_face" ->
              Vault_search_face(PyStr(s), PyInt(10), PyFloat(5))

\* The URL field and the file field of each entry point.
EntryFields(e) ==
    IF e \in DOMAIN ImageFields THEN ImageFields[e] ELSE <<"imageurl", "image">>

\* The outcome of entry point e for s: routed to the URL field, sent in the
\* base64 field, refused with ValueError, or nothing at all.
Outcome(e, s) ==
    LET r == Entered(e, s)
    IN IF r.raised # "" THEN "error"
       ELSE IF EntryFields(e)[1] \in DOMAIN r.payload THEN "url"
       ELSE IF EntryFields(e)[2] \in DOMAIN r.payload THEN "base64"
       ELSE "none"

\* The six entry points agree on the outcome for s.
Agree(s) == \A e \in EntryPoints : Outcome(e, s) = Outcome("document_primary", s)

\* The strings passed as image arguments by the most recent call.
ImagesPassed ==
    {call.args[a].s : a \in DOMAIN call.args \cap (DOMAIN ImageFields \cup {"image"})}

\* C14, as stated: for every string passed to an image entry point, the six
\* entry points agree on the outcome.
C14_EntryPointsAgree ==
    image_calls > 0 => \A s \in ImagesPassed : Agree(s)

\* C14, amended: for every non-empty string passed to an image entry point, the
\* six entry points agree on the outcome, which is URL, base64 or ValueError.
C14_EntryPointsAgreeNonEmpty ==
    image_calls > 0 =>
        \A s \in ImagesPassed :
            s # "" => Agree(s) /\ Outcome("document_primary", s) \in {"url", "base64", "error"}

\* C14: Vault.add_image was given a string longer than 100 characters, which all
\* six entry points send in their base64 field.
C14_Witness ==
    /\ call.op = "Vault.add_image" /\ image_calls > 0
    /\ call.args["image"].s = LongBase64
    /\ \A e \in EntryPoints : Outcome(e, LongBase64) = "base64"
    /\ Get(call.sent[1].request.data, "image") = PyStr(LongBase64)


\* Exactly four decimal digits.
FourDigits(v) == v.ty = "str" /\ Len(v.s) = 4 /\ AllIn(v.s, 1, 4, Digits)

\* C15: a scan with a biometric_video argument raises ValueError and sends no
\* request unless biometric_video_passcode is exactly four decimal digits, and
\* then the request's passcode field equals it.
C15_VideoNeedsFourDigitPasscode ==
    (/\ call.op = "CoreAPI.scan"
     /\ Truthy(Get(call.args, "biometric_video"))
     /\ \A arg \in GivenImages(call.args) : Classified(call.args[arg].s) # "error")
    => IF FourDigits(Get(call.args, "biometric_video_passcode"))
       THEN /\ call.outcome # "ValueError"
            /\ Get(call.sent[1].request.data, "passcode") = call.args["biometric_video_passcode"]
       ELSE call.outcome = "ValueError" /\ call.sent = <<>>


ListDefaults ==
    [orderby |-> PyStr("createtime"), sort |-> PyStr("DESC"), limit |-> PyInt(10),
     offset |-> PyInt(0)]

\* C17: Vault.list sends orderby, sort, limit and offset exactly as the caller
\* gave them, limit 0 and offset 0 included, and the defaults only for the
\* options the caller omitted.
C17_ListOptionsPassThrough ==
    (call.op = "Vault.list" /\ Posted) =>
        \A k \in DOMAIN ListDefaults :
            Get(call.sent[1].request.data, k)
              = IF k \in DOMAIN call.args THEN call.args[k] ELSE ListDefaults[k]


\* The fixed hostname of a region name, in any letter case.
RegionHost(region) ==
    IF region \in {"US", "us", "Us", "uS"} THEN "https://api.idanalyzer.com/"
    ELSE IF region \in {"EU", "eu", "Eu", "eU"} THEN "https://api-eu.idanalyzer.com/"
    ELSE ""

\* The endpoint base the claim gives a constructor of class c for a region.
EndpointBase(c, region) ==
    IF RegionHost(region) = "" THEN region
    ELSE RegionHost(region) \o (IF c = "AMLAPI" THEN "aml" ELSE "")

\* What each action appends to the endpoint base.
EndpointPath(op) ==
    CASE op = "CoreAPI.scan" -> ""
      [] op = "DocuPass.create_iframe" -> "docupass/create"
      [] op = "Vault.get" -> "vault/get"
      [] op = "AMLAPI.search_by_name" -> ""

\* C18: a constructor given an empty API key or an empty region raises
\* ValueError and binds nothing; given a region US or EU in any letter case it
\* stores the fixed hostname (with aml appended for AMLAPI), given any other
\* non-empty region it stores the region verbatim; and every later request of
\* the instance is posted to the stored endpoint base.
C18_RegionSelectsEndpoint ==
    [][/\ call'.op = cls \o ".__init__" =>
            LET key == call'.args["apikey"].s
                region == call'.args["region"].s
            IN IF key = "" \/ region = ""
               THEN /\ call'.outcome = "ValueError"
                    /\ UNCHANGED <<apikey, apiendpoint>>
               ELSE /\ call'.outcome = "return"
                    /\ apikey'[call'.self] = key
                    /\ apiendpoint'[call'.self] = EndpointBase(cls, region)
       /\ call'.sent # <<>> =>
            /\ UNCHANGED apiendpoint
            /\ call'.sent[1].request.url
                 = apiendpoint[call'.self] \o EndpointPath(call'.op)]_vars

\* C18: a Vault constructed for the region "https://127.0.0.1/" posted a
\* request to that base.
C18_Witness ==
    /\ cls = "Vault" /\ Posted
    /\ apiendpoint[call.self] = "https://127.0.0.1/"
    /\ call.sent[1].request.url = "https://127.0.0.1/vault/get"


\* The type each create method passes to __create.
CreateType ==
    [c \in {"DocuPass.create_iframe", "DocuPass.create_mobile",
            "DocuPass.create_redirection", "DocuPass.create_live_mobile"} |->
        CASE c = "DocuPass.create_iframe" -> 0
          [] c = "DocuPass.create_mobile" -> 1
          [] c = "DocuPass.create_redirection" -> 2
          [] c = "DocuPass.create_live_mobile" -> 3]

\* The payload of the call's request without its type field.
Untyped(c) ==
    LET data == c.sent[1].request.data
    IN [k \in DOMAIN data \ {"type"} |-> data[k]]

\* C19: every create_iframe, create_mobile, create_redirection and
\* create_live_mobile call posts to docupass/create with type 0, 1, 2 and 3
\* respectively, and when one such call follows another on the same instance
\* the two payloads differ in the type field only.
C19_CreateDiffersInTypeOnly ==
    [][call'.op \in DOMAIN CreateType =>
         /\ Len(call'.sent) = 1
         /\ call'.sent[1].request.url = apiendpoint[call'.self] \o "docupass/create"
         /\ Get(call'.sent[1].request.data, "type") = PyInt(CreateType[call'.op])
         /\ (call.op \in DOMAIN CreateType /\ call.self = call'.self) =>
               Untyped(call') = Untyped(call)]_vars

\* C19: create_live_mobile posted a request with type 3 to docupass/create.
C19_Witness ==
    /\ call.op = "DocuPass.create_live_mobile" /\ Posted
    /\ Get(call.sent[1].request.data, "type") = PyInt(3)
    /\ call.sent[1].request.url = apiendpoint[call.self] \o "docupass/create"


\* YYYY/MM/DD: four digits, slash, two digits, slash, two digits, nothing else.
IsDateForm(str) ==
    /\ Len(str) = 10
    /\ \A k \in 1..10 : IF k \in {5, 8} THEN Char(str, k) = "/" ELSE Char(str, k) \in Digits

\* minAge-maxAge: digits, hyphen, digits, nothing else.
IsAgeRangeForm(str) ==
    \E h \in 2..(Len(str) - 1) :
      \A k \in 1..Len(str) : IF k = h THEN Char(str, k) = "-" ELSE Char(str, k) \in Digits

\* The key each of the two setters stores under, and the form it asks for.
FormSetters ==
    "CoreAPI.verify_dob" :> "verify_dob" @@ "DocuPass.verify_dob" :> "verify_dob"
      @@ "CoreAPI.verify_age" :> "verify_age" @@ "DocuPass.verify_age" :> "verify_age"

HasForm(key, str) == IF key = "verify_dob" THEN IsDateForm(str) ELSE IsAgeRangeForm(str)

\* C20: verify_dob stores its argument unchanged iff it has the form
\* YYYY/MM/DD and verify_age iff it has the form minAge-maxAge; any other
\* non-empty argument raises ValueError and keeps the stored value, and an
\* empty argument stores the empty string.
C20_DobAndAgeForms ==
    [][(setter_calls' # setter_calls /\ call'.op \in DOMAIN FormSetters) =>
         LET key == FormSetters[call'.op]
             arg == call'.args[CHOOSE a \in DOMAIN call'.args : TRUE]
         IN IF arg.s = "" \/ HasForm(key, arg.s)
            THEN call'.outcome = "return" /\ CfgNext(call'.self)[key] = arg
            ELSE /\ call'.outcome = "ValueError"
                 /\ CfgNext(call'.self)[key] = Cfg(call'.self)[key]]_vars


\* A colour code of six hex digits, with or without a leading '#'.
IsColourCode(str) ==
    \/ Len(str) = 6 /\ AllIn(str, 1, 6, HexDigits)
    \/ Len(str) = 7 /\ Char(str, 1) = "#" /\ AllIn(str, 2, 7, HexDigits)

\* C21: set_qrcode_format accepts 6-hex-digit colour codes, its documented
\* defaults "000000" and "FFFFFF" included, and stores them unchanged in
\* qr_color and qr_bgcolor; a colour that is not a hex colour code raises
\* ValueError (size 5 and margin 1 throughout).
C21_QrColoursAccepted ==
    [][(/\ setter_calls' # setter_calls
        /\ call'.op = "DocuPass.set_qrcode_format"
        /\ call'.args["size"] = PyInt(5) /\ call'.args["margin"] = PyInt(1)) =>
         LET fg == call'.args["foreground_color"]
             bg == call'.args["background_color"]
         IN IF IsColourCode(fg.s) /\ IsColourCode(bg.s)
            THEN /\ call'.outcome = "return"
                 /\ CfgNext(call'.self)["qr_color"] = fg
                 /\ CfgNext(call'.self)["qr_bgcolor"] = bg
            ELSE call'.outcome = "ValueError"]_vars

\* C22: set_max_attempt stores every integer from 1 to 10 inclusive in
\* maxattempt and raises ValueError for every other value.
C22_MaxAttemptOneToTen ==
    [][(setter_calls' # setter_calls /\ call'.op = "DocuPass.set_max_attempt") =>
         LET max_attempt == call'.args["max_attempt"]
         IN IF max_attempt.ty = "int" /\ max_attempt.n \in 1..10
            THEN /\ call'.outcome = "return"
                 /\ CfgNext(call'.self)["maxattempt"] = max_attempt
            ELSE call'.outcome = "ValueError"]_vars

\* C23: with valid colours, set_qrcode_format stores every size from 1 to 50
\* inclusive and every margin up to 50 inclusive in qr_size and qr_margin, and
\* raises ValueError for a size or a margin above 50.
C23_QrSizeAndMarginUpToFifty ==
    [][(/\ setter_calls' # setter_calls
        /\ call'.op = "DocuPass.set_qrcode_format"
        /\ call'.args["foreground_color"] = PyStr("#000000")
        /\ call'.args["background_color"] = PyStr("#FFFFFF")) =>
         LET size == call'.args["size"]
             margin == call'.args["margin"]
         IN IF size.n \in 1..50 /\ margin.n \in 0..50
            THEN /\ call'.outcome = "return"
                 /\ CfgNext(call'.self)["qr_size"] = size
                 /\ CfgNext(call'.self)["qr_margin"] = margin
            ELSE call'.outcome = "ValueError"]_vars


\* C24: in CoreAPI and DocuPass, after any sequence of enable_authentication
\* calls the configuration's authenticate_module is 1, 2 or 'quick'.
C24_AuthenticateModuleAccepted ==
    cls \in {"CoreAPI", "DocuPass"} =>
        \A i \in Inst : Cfg(i)["authenticate_module"] \in {PyInt(1), PyInt(2), PyStr("quick")}

\* C25: the biometric threshold held in the configuration is always between
\* 0 and 1, and DocuPass biometric is 0, 1 or 2.
C25_ThresholdWithinZeroToOne ==
    cls \in {"CoreAPI", "DocuPass"} =>
        \A i \in Inst :
            /\ IsNumber(Cfg(i)["biometric_threshold"])
            /\ Tenths(Cfg(i)["biometric_threshold"]) \in 0..10
            /\ cls = "DocuPass" => Cfg(i)["biometric"] \in {PyInt(0), PyInt(1), PyInt(2)}


\* The two contract setters of DocuPass and the key each one fills.
ContractSetters ==
    "DocuPass.generate_contract" :> "contract_generate"
      @@ "DocuPass.sign_contract" :> "contract_sign"

\* C26: in each DocuPass instance at most one of contract_generate and
\* contract_sign is non-empty, and the two keys change only by a successful
\* generate_contract or sign_contract call on that instance, which fills its
\* own key with the template id and empties the other.
C26_ContractKeysFollowOwnCalls ==
    [][cls = "DocuPass" =>
         \A i \in Inst :
            LET generate == CfgNext(i)["contract_generate"]
                sign == CfgNext(i)["contract_sign"]
            IN /\ generate = PyStr("") \/ sign = PyStr("")
               /\ IF /\ call'.self = i
                     /\ call'.op \in DOMAIN ContractSetters
                     /\ call'.outcome = "return"
                  THEN /\ CfgNext(i)[ContractSetters[call'.op]] = call'.args["template_id"]
                       /\ Truthy(call'.args["template_id"])
                  ELSE /\ generate = Cfg(i)["contract_generate"]
                       /\ sign = Cfg(i)["contract_sign"]]_vars


\* The company name the program passed to the constructor of each instance.
CompanyName == [i \in Inst |-> PyStr("Company " \o i)]

\* C27: every session-creation request of a DocuPass instance carries in
\* companyname the company name passed to that instance's constructor.
C27_CreateSendsOwnCompanyName ==
    (call.op \in DOMAIN CreateType /\ Posted) =>
        Get(call.sent[1].request.data, "companyname") = CompanyName[call.self]


\* C28: Vault.update(vault_id, data) leaves the caller's data dictionary as it
\* was: after the call, returning or raising, it holds exactly the keys and
\* values it held before.
C28_UpdateLeavesCallerData ==
    [][(call'.op = "Vault.update" /\ call'.args["data"].ty = "dict") =>
         heap'[CallerData] = call'.args["data"].d]_vars


\* The two searches of AMLAPI: the argument each one checks, its least length
\* and the payload key it is sent under.
Searches ==
    [op \in {"AMLAPI.search_by_name", "AMLAPI.search_by_id_number"} |->
        IF op = "AMLAPI.search_by_name"
        THEN [arg |-> "name", least |-> 3, key |-> "name"]
        ELSE [arg |-> "document_number", least |-> 5, key |-> "documentnumber"]]

\* C29: a new AMLAPI instance has an empty database list and entity type;
\* set_aml_database stores its argument and set_entity_type stores "", "person"
\* or "legalentity" and raises ValueError for anything else, on the receiver
\* only; a search raises ValueError without a request for a name shorter than
\* 3 or a document number shorter than 5 characters, and otherwise sends one
\* request with the name or document number, country and dob of the call and
\* the database list and entity type stored in the receiver.
C29_SearchCarriesOwnSettings ==
    /\ \A i \in Inst : AMLDatabases[i] = PyStr("") /\ AMLEntityType[i] = PyStr("")
    /\ [][/\ \A i \in Inst :
               /\ AMLDatabases'[i] =
                    IF call'.op = "AMLAPI.set_aml_database" /\ call'.self = i
                    THEN call'.args["databases"] ELSE AMLDatabases[i]
               /\ AMLEntityType'[i] =
                    IF /\ call'.op = "AMLAPI.set_entity_type" /\ call'.self = i
                       /\ call'.args["entity_type"].s \in {"", "person", "legalentity"}
                    THEN call'.args["entity_type"] ELSE AMLEntityType[i]
          /\ call'.op = "AMLAPI.set_entity_type" =>
               (call'.outcome = "ValueError"
                  <=> call'.args["entity_type"].s \notin {"", "person", "legalentity"})
          /\ call'.op \in DOMAIN Searches =>
               LET search == Searches[call'.op]
                   args == call'.args
               IN IF Len(args[search.arg].s) < search.least
                  THEN call'.outcome = "ValueError" /\ call'.sent = <<>>
                  ELSE /\ Len(call'.sent) = 1
                       /\ LET data == call'.sent[1].request.data
                          IN /\ DOMAIN data = {search.key, "country", "dob", "database",
                                               "entity", "apikey", "client"}
                             /\ data[search.key] = args[search.arg]
                             /\ data["country"] = args["country"]
                             /\ data["dob"] = args["dob"]
                             /\ data["database"] = AMLDatabases[call'.self]
                             /\ data["entity"] = AMLEntityType[call'.self]
                             /\ data["apikey"] = PyStr(apikey[call'.self])
                             /\ data["client"] = PyStr("python-sdk")]_vars

\* C29: a search of one instance carried the database list and the entity type
\* set on it while the other instance still had none.
C29_Witness ==
    /\ call.op = "AMLAPI.search_by_name" /\ Posted
    /\ Get(call.sent[1].request.data, "name") = PyStr("Jet")
    /\ Get(call.sent[1].request.data, "database") = PyStr("un_sc,us_ofac")
    /\ Get(call.sent[1].request.data, "entity") = PyStr("person")
    /\ AMLDatabases[Other(call.self)] = PyStr("")
    /\ AMLEntityType[Other(call.self)] = PyStr("")


\* C30: in all four classes a new instance is in silent mode, and an instance
\* is in strict mode exactly when the most recent throw_api_exception call on
\* it passed the boolean True; False (the default of a call with no argument)
\* and the truthy non-boolean 1 leave it silent, and no call changes the mode
\* of the other instance.
C30_StrictOnlyOnBooleanTrue ==
    /\ \A i \in Inst : ~throw_error[i]
    /\ [][\A i \in Inst :
            throw_error'[i] =
              IF call'.op \in ThrowActions /\ call'.self = i
              THEN call'.args["throw_exception"] = PyBool(TRUE)
              ELSE throw_error[i]]_vars

\* C30: throw_api_exception(1) left its instance in silent mode while the
\* other instance stayed in strict mode.
C30_Witness ==
    /\ call.op \in ThrowActions
    /\ call.args["throw_exception"] = PyInt(1)
    /\ ~throw_error[call.self]
    /\ throw_error[Other(call.self)]

====
